---- MODULE Spec2Model ----
(***************************************************************************)
(* Verification model of fastSDK.                                          *)
(*                                                                         *)
(*  - the API job pipeline of ApiJobManager (Preparing, Load files,        *)
(*    Sending request, Polling, Processing result) for one job,            *)
(*  - the service registry of ServiceManager,                              *)
(*  - the threaded InternalJob / InternalJobManager.                       *)
(***************************************************************************)
EXTENDS Integers, Sequences, FiniteSets, TLC

VARIABLES
    \* ---- ApiJobManager / APISeex -------------------------------------
    specification,      \* service_def.specification of the job's service
    endpoint,           \* endpoint_def.parameters (sequence of parameters)
    data,               \* job.input, the parameter map given to submit_job
    tasks,              \* the job's task list built by submit_job
    task_idx,           \* index of the task that runs next
    jobState,           \* "none" | "running" | "finished" | "failed"
    jobError,           \* the error a failed job carries
    prev_task_output,   \* job.prev_task_output
    n_polling_errors,   \* task data "number_of_polling_errors" (0 = unset)
    elapsed,            \* seconds spent in the Polling task
    sendCalls,          \* HTTP calls issued by api_client.send_request
    pollCalls,          \* HTTP calls issued by api_client.poll_status
    sent_request,       \* the RequestData handed to api_client.send_request
    task_progress,      \* job.set_task_progress: message of the Polling task
    job_result,         \* what the last task returned
    server,             \* environment: what the remote service may answer
    send_status,        \* history: status code of the send call's response
                        \*          (0 = not sent, -1 = the call raised)
    lastPoll,           \* history: outcome of the latest poll call
    consecFail,         \* history: consecutive transient poll failures
    ranTasks,           \* history: names of the tasks that were invoked
    file_handlers,      \* ApiJobManager.file_handlers: key -> FileHandler
    service_id_arg,     \* the service_id argument of submit_job
    path_size_mb,       \* environment: size in MB of every file read from disk
    uploaded,           \* history: names of the files handed to fast_cloud.upload
    total_size,         \* history: total_size computed by _handle_file_upload
                        \*          (-1 = not computed)
    \* ---- ServiceManager ------------------------------------------------
    services,           \* _services: id -> ServiceDefinition
    service_names,      \* _service_names: normalized name -> id
    reg_last,           \* history: the latest registry call and its outcome
    service_store,      \* ServiceManager.service_store is set
    store_files,        \* FileSystemStore: file key -> stored ServiceDefinition
    store_loads,        \* history: keys the latest call asked the store for
    \* ---- InternalJob / InternalJobManager --------------------------------
    status,             \* InternalJob.status of every job
    queue,              \* InternalJobManager.queue
    in_progress,        \* InternalJobManager.in_progress: the job threads
    results,            \* InternalJobManager.results
    worker_alive,       \* the background worker thread was started
    \* ---- threads that share one ServiceManager ---------------------------
    writer,             \* the writer thread: its position in add_service,
                        \* update_service or remove_service, and its locals
    readers,            \* the reader threads: position in get_service, locals
    \* ---- web.APIClient shared by threads --------------------------------
    thread_local,       \* _thread_local: storage slot -> current_service
    request_handlers,   \* request_handlers: service name -> handler (its url)
    callers,            \* every thread's position in an endpoint call and
                        \* the request handler it holds
    sent_to,            \* history: url of the latest request of every thread
    \* ---- ResponseParser ------------------------------------------------
    response_body,      \* response.json() of the HTTP response to parse
    parsed,             \* what parse_response returned (or the error raised)
    consulted,          \* history: the strategies whose can_parse was called
                        \*          on the body, in call order
    final_value,        \* what _process_result returns for the parsed response
    \* ---- service addresses and the provider clients ---------------------
    address_input,      \* the address string and provider a service is added with
    service_address,    \* service_def.service_address made by create_service_address
    reparsed,           \* create_service_address of the url of service_address
    api_client,         \* the APIClient made by add_api_client
    wire,               \* history: the latest HTTP call of the client
    \* ---- specification loaders -------------------------------------------
    host_answers,       \* environment: outcome of the i-th GET of a load
    spec_url,           \* the url load_spec was called with
    fetched,            \* history: the GETs of the latest load and their outcomes
    load_result,        \* which loader ran and what it returned or raised
    \* ---- threads calling InternalJobManager.submit -----------------------
    submitters,         \* every calling thread's position in submit
    \* ---- OpenAPIParser ---------------------------------------------------
    openapi_doc,        \* the document given to the latest parse
    service_definition, \* the ServiceDefinition the latest parse returned
    previous_parse,     \* history: document and result of the parse before
    \* ---- web.EndPointRequest ---------------------------------------------
    epr_server_response,            \* EndPointRequest.server_response
    epr_error,                      \* EndPointRequest.error
    epr_in_between_server_response, \* EndPointRequest.in_between_server_response
    epr_current_retry_counter,      \* EndPointRequest._current_retry_counter
    epr_async_jobs,     \* the coroutines submitted with _response_callback:
                        \* request() calls, refreshes, pending, done callbacks
    epr_raised          \* history: the exception that left the latest callback

jobVars == << specification, endpoint, data, tasks, task_idx, jobState,
              jobError, prev_task_output, n_polling_errors, elapsed,
              sendCalls, pollCalls, sent_request, task_progress, job_result,
              server, send_status, lastPoll, consecFail, ranTasks,
              file_handlers, service_id_arg, path_size_mb, uploaded, total_size >>

fhVars == << file_handlers, service_id_arg, path_size_mb, uploaded, total_size >>

regVars == << services, service_names, reg_last, service_store, store_files,
              store_loads >>

ijVars == << status, queue, in_progress, results, worker_alive >>

thrVars == << writer, readers >>

clientVars == << thread_local, request_handlers, callers, sent_to >>

respVars == << response_body, parsed, consulted, final_value >>

addrVars == << address_input, service_address, reparsed, api_client, wire >>

loaderVars == << host_answers, spec_url, fetched, load_result >>

subVars == << submitters >>

oaVars == << openapi_doc, service_definition, previous_parse >>

eprVars == << epr_server_response, epr_error, epr_in_between_server_response,
              epr_current_retry_counter, epr_async_jobs, epr_raised >>

extVars ==
    << thrVars, clientVars, respVars, addrVars, loaderVars, subVars, oaVars, eprVars >>

\* what the actions of one part leave alone
thrRest ==
    << clientVars, respVars, addrVars, loaderVars, subVars, oaVars, eprVars >>
clientRest ==
    << thrVars, respVars, addrVars, loaderVars, subVars, oaVars, eprVars >>
respRest ==
    << thrVars, clientVars, addrVars, loaderVars, subVars, oaVars, eprVars >>
addrRest ==
    << thrVars, clientVars, respVars, loaderVars, subVars, oaVars, eprVars >>
loaderRest ==
    << thrVars, clientVars, respVars, addrVars, subVars, oaVars, eprVars >>
oaRest ==
    << thrVars, clientVars, respVars, addrVars, loaderVars, subVars, eprVars >>
subRest ==
    << thrVars, clientVars, respVars, addrVars, loaderVars, oaVars, eprVars >>
eprRest ==
    << thrVars, clientVars, respVars, addrVars, loaderVars, subVars, oaVars >>

vars == << jobVars, regVars, ijVars, extVars >>

-----------------------------------------------------------------------------
(* Bounds *)

\* polls explored per job in the pipeline specification
MaxPolls == 7

-----------------------------------------------------------------------------
(* Program constants *)

\* @polling_task(poll_interval_seconds=1.0, timeout_seconds=3600)
PollIntervalSeconds == 1
\* older revision of the job manager: timeout_seconds=300
PollTimeoutSecondsOld == 300
PollTimeoutSeconds == 3600

\* "if n_polling_errors > 3: raise e"
PollErrorLimit == 3

None == "None"

FileTypes == {"file", "image", "video", "audio"}

PollingSpecifications_m == {"fasttaskapi", "socaity", "runpod"}
PollingSpecifications == {"fasttaskapi", "socaity", "runpod", "replicate"}

APIJobStatus ==
    {"QUEUED", "PROCESSING", "FINISHED", "FAILED", "TIMEOUT", "CANCELLED", "UNKNOWN"}

-----------------------------------------------------------------------------
(* Inputs: endpoints, parameter maps, HTTP responses *)

\* EndpointParameter.type is one type or a list of types: a set here
P_text  == [name |-> "text", type |-> {"string"}, required |-> TRUE,
            default |-> None, location |-> "body"]
P_image == [name |-> "image", type |-> {"image"}, required |-> TRUE,
            default |-> None, location |-> "body"]
P_voice == [name |-> "voice", type |-> {"string"}, required |-> FALSE,
            default |-> "alice", location |-> "query"]
P_audio == [name |-> "audio", type |-> {"string", "audio"}, required |-> TRUE,
            default |-> None, location |-> "body"]

Endpoints == { << P_text >>, << P_image >>, << P_image, P_voice >> }

\* endpoints with two media parameters and with a list-typed media parameter
FileEndpoints == Endpoints \cup { << P_image, P_audio >>, << P_voice, P_audio >> }

Specifications == {"openapi", "fasttaskapi"}

\* ServiceSpecification
AllSpecifications ==
    {"socaity", "fasttaskapi", "runpod", "cog", "cog2", "replicate", "openai",
     "openapi", "other"}

ParamNames(ep) == { ep[i].name : i \in 1..Len(ep) }

\* values a caller may supply for a parameter
ValuesFor(p) == IF p.type \cap FileTypes # {} THEN {"path", "url"} ELSE {"hi"}

ParamOf(ep, n) == CHOOSE p \in { ep[i] : i \in 1..Len(ep) } : p.name = n

\* every parameter map over a subset of the endpoint's parameters
DataFor(ep) ==
    UNION { { d \in [S -> {"path", "url", "hi"}] :
                \A n \in S : d[n] \in ValuesFor(ParamOf(ep, n)) }
            : S \in SUBSET ParamNames(ep) }

StatusCodes == {200, 404, 500}

ErrorTexts == {None, "boom"}

\* an httpx.Response: status code and what its body decodes to
JobBodies ==
    { [kind |-> "job", status |-> s, error |-> e] :
        s \in APIJobStatus, e \in ErrorTexts }
RawBody == [kind |-> "raw", status |-> None, error |-> None]

HttpResponses ==
    { [status_code |-> 200, body |-> b] :
        b \in { jb \in JobBodies : jb.error = None
                                   \/ jb.status \in {"FAILED", "CANCELLED"} }
              \cup {RawBody} }
    \cup { [status_code |-> c, body |-> RawBody] : c \in StatusCodes \ {200} }

NoOutput == [kind |-> "none"]

-----------------------------------------------------------------------------
(* ResponseParser *)

\* check_response_status: None when the response is no HTTP error
check_response_status_m(response) ==
    IF response.status_code = 200 THEN None
    ELSE IF response.status_code \in {401, 403} THEN "Unauthorized"
    ELSE IF response.status_code = 404 THEN "NotFound"
    ELSE None
check_response_status(response) ==
    IF response.status_code = 200 THEN None
    ELSE IF response.status_code \in {401, 403} THEN "Unauthorized"
    ELSE IF response.status_code = 404 THEN "NotFound"
    ELSE IF response.status_code >= 400 THEN "HttpError"
    ELSE None

\* parse_response: a BaseJobResponse when a strategy matches, else raw data
parse_response(response) == response.body

isBaseJobResponse(x) == x.kind = "job"

-----------------------------------------------------------------------------
(* APIClient.format_request_params *)

IsFileParam(p) == p.type \cap FileTypes # {}

ParamValue(p, d) == IF p.name \in DOMAIN d THEN d[p.name] ELSE p.default

EmptyMap == [n \in {} |-> None]

\* RequestData(): every bucket empty, file_params a plain dict
EmptyRequestData ==
    [kind |-> "request", query_params |-> EmptyMap, body_params |-> EmptyMap,
     file_params |-> EmptyMap, file_is_media |-> FALSE]

MissingParams(ep, d) ==
    { i \in 1..Len(ep) : ParamValue(ep[i], d) = None /\ ep[i].required }

FirstMissing(ep, d) ==
    CHOOSE i \in MissingParams(ep, d) : \A k \in MissingParams(ep, d) : i <= k

NamesAt(ep, loc) == { ep[i].name : i \in { k \in 1..Len(ep) : ep[k].location = loc } }

FileNames(ep) == { ep[i].name : i \in { k \in 1..Len(ep) : IsFileParam(ep[k]) } }

\* [ok, error, rq]: the RequestData, or the parameter whose absence raises
format_request_params(ep, d) ==
    IF DOMAIN d = {}
    THEN [ok |-> TRUE, error |-> None, rq |-> EmptyRequestData]
    ELSE IF MissingParams(ep, d) # {}
    THEN [ok |-> FALSE, error |-> ep[FirstMissing(ep, d)].name,
          rq |-> EmptyRequestData]
    ELSE [ok |-> TRUE, error |-> None,
          rq |-> [kind |-> "request",
                  query_params |-> [n \in NamesAt(ep, "query") |-> ParamValue(ParamOf(ep, n), d)],
                  body_params |-> [n \in NamesAt(ep, "body") |-> ParamValue(ParamOf(ep, n), d)],
                  file_params |-> [n \in FileNames(ep) |-> ParamValue(ParamOf(ep, n), d)],
                  file_is_media |-> FALSE]]

-----------------------------------------------------------------------------
(* FileHandler *)

\* FileHandler(): the handler add_file_handler builds for a generic service
\* (a threshold of 0 stands for None: the code tests both by truthiness)
DefaultFileHandler ==
    [fast_cloud |-> FALSE, upload_to_cloud_threshold_mb |-> 0,
     max_upload_file_size_mb |-> 0]

\* file_handlers.get(key) of a key that has no handler
NoFileHandler ==
    [fast_cloud |-> FALSE, upload_to_cloud_threshold_mb |-> -1,
     max_upload_file_size_mb |-> -1]

UploadThresholdMb == 2
MaxUploadMb == 3

\* handlers given to add_file_handler(service_id, file_handler=...)
FileHandlers ==
    [fast_cloud : BOOLEAN, upload_to_cloud_threshold_mb : {0, UploadThresholdMb},
     max_upload_file_size_mb : {0, MaxUploadMb}]

\* sizes of a file on disk
MaxFileMb == 4
FileSizes == 1..MaxFileMb

\* the service of the job: its id and its display name
JobServiceId == "svc_id"
JobServiceName == "svc_name"

\* ServiceManager.get_service(id_or_name).id for the job's service
ResolveService(id_or_name) == JobServiceId

FhGet(key) ==
    IF key \in DOMAIN file_handlers THEN file_handlers[key] ELSE NoFileHandler

IsUrl(v) == v \in {"url", "cloud_url"}

\* MediaDict(files=..., download_files=False, read_system_files=True):
\* a path is read into memory, a URL stays a URL reference
load_files_from_disk(file_params) ==
    [n \in DOMAIN file_params |->
        IF file_params[n] = "path" THEN "bytes" ELSE file_params[n]]

\* MediaDict.get_url_files
get_url_files(file_params) ==
    [n \in { k \in DOMAIN file_params : IsUrl(file_params[k]) } |-> file_params[n]]

\* _get_non_url_files: get_processable_files with download_files = False
get_non_url_files_m(files) == files
get_non_url_files(files) ==
    [n \in { k \in DOMAIN files : ~IsUrl(files[k]) } |-> files[n]]

\* _get_non_url_files followed by to_httpx_send_able_tuple
prepare_files_for_send(file_params) ==
    [n \in DOMAIN get_non_url_files(file_params) |-> "httpx"]

\* MediaDict.file_size('mb')
file_size(files) == Cardinality(DOMAIN files) * path_size_mb

\* "not self.fast_cloud or not self.upload_to_cloud_threshold_mb
\*  or total_size < self.upload_to_cloud_threshold_mb"
SkipUpload_m(fh, total) ==
    \/ ~fh.fast_cloud
    \/ fh.upload_to_cloud_threshold_mb = 0
    \/ total <= fh.upload_to_cloud_threshold_mb
SkipUpload(fh, total) ==
    \/ ~fh.fast_cloud
    \/ fh.upload_to_cloud_threshold_mb = 0
    \/ total < fh.upload_to_cloud_threshold_mb

\* "self.max_upload_file_size_mb and total_size > self.max_upload_file_size_mb"
ExceedsLimit(fh, total) ==
    fh.max_upload_file_size_mb # 0 /\ total > fh.max_upload_file_size_mb

\* _handle_file_upload: what it does with the files it is given
handle_file_upload(fh, files) ==
    IF DOMAIN files = {} THEN "none"
    ELSE IF ExceedsLimit(fh, file_size(files)) THEN "raise"
    ELSE IF SkipUpload(fh, file_size(files)) THEN "attach"
    ELSE "upload"

\* dict.update
MapUpdate(m, u) ==
    [n \in DOMAIN m \cup DOMAIN u |-> IF n \in DOMAIN u THEN u[n] ELSE m[n]]

-----------------------------------------------------------------------------
(* ApiJobManager.submit_job: the task list *)

\* "any(t in ["file", "image", "video", "audio"] for t in param_types)"
HasFileParam_m(ep) == \E i \in 1..Len(ep) : ep[i].type \subseteq FileTypes
HasFileParam(ep) == \E i \in 1..Len(ep) : IsFileParam(ep[i])

task_list_m(spec, ep, fh) ==
    << "Preparing" >>
    \o << "Sending request" >>
    \o (IF HasFileParam(ep) THEN << "Load files" >> ELSE << >>)
    \o (IF fh # NoFileHandler /\ fh.fast_cloud THEN << "Uploading files" >> ELSE << >>)
    \o (IF spec \in PollingSpecifications THEN << "Polling" >> ELSE << >>)
    \o << "Processing result" >>
task_list(spec, ep, fh) ==
    << "Preparing" >>
    \o (IF HasFileParam(ep) THEN << "Load files" >> ELSE << >>)
    \o (IF fh # NoFileHandler /\ fh.fast_cloud THEN << "Uploading files" >> ELSE << >>)
    \o << "Sending request" >>
    \o (IF spec \in PollingSpecifications THEN << "Polling" >> ELSE << >>)
    \o << "Processing result" >>

-----------------------------------------------------------------------------
(* The task runner: a task that returns hands its output to the next task, *)
(* a task that raises fails the job, PollAgain re-invokes the same task.   *)

CurrentTask == IF task_idx \in 1..Len(tasks) THEN tasks[task_idx] ELSE None

Running(name) == jobState = "running" /\ CurrentTask = name

\* the task returned `out`
Return(out) ==
    /\ prev_task_output' = out
    /\ task_idx' = task_idx + 1
    /\ jobState' = IF task_idx = Len(tasks) THEN "finished" ELSE "running"
    /\ jobError' = jobError
    /\ ranTasks' = Append(ranTasks, CurrentTask)

\* the task raised `err`
Raise(err) ==
    /\ jobState' = "failed"
    /\ jobError' = err
    /\ UNCHANGED << prev_task_output, task_idx >>
    /\ ranTasks' = Append(ranTasks, CurrentTask)

submit_job ==
    /\ jobState = "none"
    /\ tasks' = task_list(specification, endpoint, FhGet(service_id_arg))
    /\ task_idx' = 1
    /\ jobState' = "running"
    /\ UNCHANGED << specification, endpoint, data, jobError, prev_task_output,
                    n_polling_errors, elapsed, sendCalls, pollCalls,
                    sent_request, task_progress, job_result, server,
                    send_status, lastPoll, consecFail, ranTasks >>
    /\ UNCHANGED << fhVars, regVars, ijVars, extVars >>

prepare_request ==
    /\ Running("Preparing")
    /\ LET r == format_request_params(endpoint, data) IN
         IF r.ok THEN Return(r.rq)
         ELSE Raise([kind |-> "MissingParameter", detail |-> r.error])
    /\ UNCHANGED << specification, endpoint, data, tasks, n_polling_errors,
                    elapsed, sendCalls, pollCalls, sent_request, task_progress,
                    job_result, server, send_status, lastPoll, consecFail >>
    /\ UNCHANGED << fhVars, regVars, ijVars, extVars >>

load_files ==
    /\ Running("Load files")
    /\ LET rq == prev_task_output IN
         IF DOMAIN rq.file_params = {} THEN Return(rq)
         ELSE Return([rq EXCEPT !.file_params = load_files_from_disk(rq.file_params),
                                !.file_is_media = TRUE])
    /\ UNCHANGED << specification, endpoint, data, tasks, n_polling_errors,
                    elapsed, sendCalls, pollCalls, sent_request, task_progress,
                    job_result, server, send_status, lastPoll, consecFail >>
    /\ UNCHANGED << fhVars, regVars, ijVars, extVars >>

\* _upload_files with FileHandler.upload_files
upload_files ==
    /\ Running("Uploading files")
    /\ LET rq == prev_task_output
           fh == FhGet(ResolveService(service_id_arg))
           sendable_files == get_non_url_files(rq.file_params)
           todo == handle_file_upload(fh, sendable_files)
       IN  IF DOMAIN rq.file_params = {}
           THEN Return(rq) /\ UNCHANGED << uploaded, total_size >>
           ELSE /\ total_size' = IF todo = "none" THEN total_size
                                 ELSE file_size(sendable_files)
                /\ uploaded' = IF todo = "upload"
                               THEN uploaded \cup DOMAIN sendable_files ELSE uploaded
                /\ CASE todo = "none" ->
                          \* files.update(None): a no-op or a TypeError
                          \/ Return(rq)
                          \/ Raise([kind |-> "TypeError", detail |-> "update"])
                     [] todo = "raise" ->
                          Raise([kind |-> "FileTooLarge",
                                 detail |-> "max_upload_file_size_mb"])
                     [] todo = "attach" ->
                          Return(rq)
                     [] todo = "upload" ->
                          \* fast_cloud.upload returns { name: url } or fails
                          \/ Return([rq EXCEPT !.file_params =
                                        MapUpdate(rq.file_params,
                                                  [n \in DOMAIN sendable_files |-> "cloud_url"])])
                          \/ Raise([kind |-> "UploadFailed", detail |-> "upload"])
    /\ UNCHANGED << specification, endpoint, data, tasks, n_polling_errors,
                    elapsed, sendCalls, pollCalls, sent_request, task_progress,
                    job_result, server, send_status, lastPoll, consecFail >>
    /\ UNCHANGED << file_handlers, service_id_arg, path_size_mb >>
    /\ UNCHANGED << regVars, ijVars, extVars >>

send_request ==
    /\ Running("Sending request")
    /\ LET rq == prev_task_output IN
         IF ~rq.file_is_media
         THEN \* prepare_files_for_send reads files.download_files of a dict
              /\ Raise([kind |-> "AttributeError", detail |-> "download_files"])
              /\ UNCHANGED << sendCalls, sent_request, send_status >>
         ELSE /\ sendCalls' = sendCalls + 1
              /\ sent_request' =
                    [rq EXCEPT !.body_params = MapUpdate(rq.body_params, get_url_files(rq.file_params)),
                               !.file_params = prepare_files_for_send(rq.file_params)]
              /\ \/ /\ server.raises
                    /\ send_status' = -1
                    /\ Raise([kind |-> "ConnectionError", detail |-> "send"])
                 \/ \E response \in server.responses :
                       LET error == check_response_status(response) IN
                         /\ send_status' = response.status_code
                         /\ IF error # None
                            THEN Raise([kind |-> "RequestFailed", detail |-> error])
                            ELSE Return(parse_response(response))
    /\ UNCHANGED << specification, endpoint, data, tasks, n_polling_errors,
                    elapsed, pollCalls, task_progress, job_result, server,
                    lastPoll, consecFail >>
    /\ UNCHANGED << fhVars, regVars, ijVars, extVars >>

\* return PollAgain(...): the same task is invoked again one interval later
PollAgain ==
    /\ elapsed' = elapsed + PollIntervalSeconds
    /\ UNCHANGED << prev_task_output, task_idx, jobState, jobError, ranTasks >>

\* "elif parsed_response.status in [APIJobStatus.FAILED, APIJobStatus.CANCELLED]"
JobFailedStatuses_m == {"FAILED"}
JobFailedStatuses == {"FAILED", "CANCELLED"}

PollOutcome(o, s, e) == [outcome |-> o, status |-> s, error |-> e]

\* "if n_polling_errors > 3: raise e"
TooManyPollingErrors(n) == n > PollErrorLimit

\* the except branch of the poll call
poll_exception ==
    /\ lastPoll' = PollOutcome("exception", None, None)
    /\ consecFail' = consecFail + 1
    /\ task_progress' = task_progress
    /\ IF TooManyPollingErrors(n_polling_errors)
       THEN /\ Raise([kind |-> "PollError", detail |-> "poll"])
            /\ UNCHANGED << n_polling_errors, elapsed >>
       ELSE /\ n_polling_errors' = n_polling_errors + 1
            /\ PollAgain

\* the poll call returned an httpx.Response
poll_response(http_response) ==
    LET error == check_response_status(http_response)
        parsed_response == parse_response(http_response)
    IN  /\ n_polling_errors' = n_polling_errors
        /\ IF error # None
           THEN /\ Raise([kind |-> "PollHttpError", detail |-> error])
                /\ lastPoll' = PollOutcome(IF http_response.status_code >= 500
                                           THEN "http_5xx" ELSE "http_4xx", None, None)
                /\ consecFail' = IF http_response.status_code >= 500
                                 THEN consecFail + 1 ELSE 0
                /\ UNCHANGED << elapsed, task_progress >>
           ELSE IF ~isBaseJobResponse(parsed_response)
           THEN /\ Raise([kind |-> "PollNotAJobResponse", detail |-> "raw"])
                /\ lastPoll' = PollOutcome("undecodable", None, None)
                /\ consecFail' = consecFail + 1
                /\ UNCHANGED << elapsed, task_progress >>
           ELSE /\ lastPoll' = PollOutcome("decoded", parsed_response.status,
                                           parsed_response.error)
                /\ consecFail' = 0
                /\ IF parsed_response.status = "FINISHED"
                   THEN /\ Return(parsed_response)
                        /\ UNCHANGED << elapsed, task_progress >>
                   ELSE IF parsed_response.status \in JobFailedStatuses
                   THEN /\ Raise([kind |-> "ServerJobFailed",
                                  detail |-> IF parsed_response.error # None
                                             THEN parsed_response.error
                                             ELSE parsed_response.status])
                        /\ UNCHANGED << elapsed, task_progress >>
                   ELSE /\ task_progress' = parsed_response.status
                        /\ PollAgain

\* one invocation of _poll_status; cap bounds the polls that are explored
poll_status(cap) ==
    /\ Running("Polling")
    /\ elapsed < PollTimeoutSeconds
    /\ IF ~isBaseJobResponse(prev_task_output)
       THEN /\ Return(prev_task_output)
            /\ UNCHANGED << n_polling_errors, elapsed, pollCalls, task_progress,
                            lastPoll, consecFail >>
       ELSE /\ pollCalls < cap
            /\ pollCalls' = pollCalls + 1
            /\ \/ server.raises /\ poll_exception
               \/ \E http_response \in server.responses : poll_response(http_response)
    /\ UNCHANGED << specification, endpoint, data, tasks, sendCalls,
                    sent_request, job_result, server, send_status >>
    /\ UNCHANGED << fhVars, regVars, ijVars, extVars >>

\* polling_task(timeout_seconds=...): the Polling task ran out of time
poll_timeout ==
    /\ Running("Polling")
    /\ elapsed >= PollTimeoutSeconds
    /\ Raise([kind |-> "PollTimeout", detail |-> "timeout"])
    /\ UNCHANGED << specification, endpoint, data, tasks, n_polling_errors,
                    elapsed, sendCalls, pollCalls, sent_request, task_progress,
                    job_result, server, send_status, lastPoll, consecFail >>
    /\ UNCHANGED << fhVars, regVars, ijVars, extVars >>

process_result ==
    /\ Running("Processing result")
    /\ Return(prev_task_output)
    /\ job_result' = IF isBaseJobResponse(prev_task_output)
                     THEN "result" ELSE "raw"
    /\ UNCHANGED << specification, endpoint, data, tasks, n_polling_errors,
                    elapsed, sendCalls, pollCalls, sent_request, task_progress,
                    server, send_status, lastPoll, consecFail >>
    /\ UNCHANGED << fhVars, regVars, ijVars, extVars >>

-----------------------------------------------------------------------------
(* ServiceManager: the service registry.  Strings are sequences of        *)
(* characters so that the name normalization is computed.                 *)

Str_s1 == << "s", "1" >>
Str_ab == << "a", "b" >>
Str_Ab == << "A", "b" >>
Str_a_b == << "a", " ", "b" >>

ServiceIds == { Str_s1, Str_ab }
\* a definition without display name carries the empty string
NoName == << >>
DisplayNames == { Str_Ab, Str_a_b, NoName }
Descriptions == { "d1", "d2" }

AlphaNumeric == { "a", "b", "s", "1", "2" }
Digits == { "1", "2" }

lower(c) == IF c = "A" THEN "a" ELSE IF c = "B" THEN "b"
            ELSE IF c = "S" THEN "s" ELSE c

\* non-alphanumeric characters become "_", runs of "_" collapse to one
RECURSIVE collapse(_)
collapse(str) ==
    IF Len(str) = 0 THEN << >>
    ELSE LET c == IF lower(Head(str)) \in AlphaNumeric \cup { "unnamed_service_" }
                  THEN lower(Head(str)) ELSE "_"
             rest == collapse(Tail(str))
         IN  IF c = "_" /\ Len(rest) > 0 /\ Head(rest) = "_"
             THEN rest ELSE << c >> \o rest

\* normalize_name_for_py: lowercase, non-alphanumeric -> "_", collapsed,
\* a leading digit is prefixed
normalize_name_for_py(name) ==
    LET n == collapse(name) IN
      IF Len(n) > 0 /\ Head(n) \in Digits THEN << "_" >> \o n ELSE n

\* "unnamed_service_" + service_def.id
unnamed_service(id) == << "unnamed_service_" >> \o id

MapSet(m, k, v) == [x \in DOMAIN m \cup {k} |-> IF x = k THEN v ELSE m[x]]

MapPop(m, k) == [x \in DOMAIN m \ {k} |-> m[x]]

RegCall(op, arg, outcome) == [op |-> op, arg |-> arg, outcome |-> outcome]

\* the display name the stored definition gets
AddedName(service_def) ==
    IF service_def.display_name = NoName
    THEN unnamed_service(service_def.id) ELSE service_def.display_name

\* the registry: the two indexes and the files of the service store
Registry(svcs, names, files) ==
    [services |-> svcs, service_names |-> names, store_files |-> files]

CurrentRegistry == Registry(services, service_names, store_files)

\* FileSystemStore.save_service: the file is named after the id
save_service(files, service) == MapSet(files, service.id, service)

\* FileSystemStore.delete_service
delete_service(files, id) == MapPop(files, id)

\* the body of add_service(spec_source) for a ServiceDefinition, on registry reg
AddedTo(reg, service_def) ==
    LET stored == [service_def EXCEPT !.display_name = AddedName(service_def)]
        normalized == normalize_name_for_py(stored.display_name)
    IN  Registry(MapSet(reg.services, stored.id, stored),
                 MapSet(reg.service_names, normalized, stored.id),
                 IF service_store THEN save_service(reg.store_files, stored)
                 ELSE reg.store_files)

add_service(service_def) ==
    LET reg == AddedTo(CurrentRegistry, service_def) IN
        /\ services' = reg.services
        /\ service_names' = reg.service_names
        /\ store_files' = reg.store_files
        /\ store_loads' = {}
        /\ reg_last' = RegCall("add", service_def.id, "ok")
        /\ UNCHANGED << service_store, jobVars, ijVars, extVars >>

\* "service = self.service_store.load_service(key); if service:
\*  return self.add_service(service)": the loaded definition is added
Hydrated_m(reg, service_def) == reg
Hydrated(reg, service_def) == AddedTo(reg, service_def)

GetResult(found, raised, service, reg, loads) ==
    [found |-> found, raised |-> raised, service |-> service, reg |-> reg,
     loads |-> loads]

\* the service add_service returns for a loaded definition
LoadedService(key) ==
    [store_files[key] EXCEPT !.display_name = AddedName(store_files[key])]

\* get_service(id_or_name): what it returns, the registry it leaves and the
\* keys it asked the store for
get_service(id_or_name) ==
    LET normalized == normalize_name_for_py(id_or_name) IN
    IF id_or_name \in DOMAIN services
    THEN GetResult(TRUE, FALSE, services[id_or_name], CurrentRegistry, {})
    ELSE IF normalized \in DOMAIN service_names
    THEN IF service_names[normalized] \in DOMAIN services
         THEN GetResult(TRUE, FALSE, services[service_names[normalized]],
                        CurrentRegistry, {})
         ELSE \* self._services[service_id] raises KeyError
              GetResult(FALSE, TRUE, None, CurrentRegistry, {})
    ELSE IF ~service_store
    THEN GetResult(FALSE, FALSE, None, CurrentRegistry, {})
    ELSE IF id_or_name \in DOMAIN store_files
    THEN GetResult(TRUE, FALSE, LoadedService(id_or_name),
                   Hydrated(CurrentRegistry, store_files[id_or_name]),
                   {id_or_name})
    ELSE IF normalized # id_or_name /\ normalized \in DOMAIN store_files
    THEN GetResult(TRUE, FALSE, LoadedService(normalized),
                   Hydrated(CurrentRegistry, store_files[normalized]),
                   {id_or_name, normalized})
    ELSE GetResult(FALSE, FALSE, None, CurrentRegistry,
                   {id_or_name, normalized})

GetOutcome(r) == IF r.raised THEN "KeyError" ELSE IF r.found THEN "ok" ELSE "none"

get_service_call(id_or_name) ==
    LET r == get_service(id_or_name) IN
      /\ reg_last' = RegCall("get", id_or_name, GetOutcome(r))
      /\ services' = r.reg.services
      /\ service_names' = r.reg.service_names
      /\ store_files' = r.reg.store_files
      /\ store_loads' = r.loads
      /\ UNCHANGED << service_store, jobVars, ijVars, extVars >>

\* update_service(id_or_name, display_name=value) / (description=value)
update_service(id_or_name, key, value) ==
    LET r == get_service(id_or_name) IN
      /\ reg_last' = RegCall("update", id_or_name, GetOutcome(r))
      /\ store_loads' = r.loads
      /\ IF ~r.found
         THEN UNCHANGED << services, service_names, store_files >>
         ELSE LET service == r.service
                  updated == IF key = "display_name"
                             THEN \* only the name index is changed
                                  service
                             ELSE [service EXCEPT !.description = value]
              IN  /\ service_names' =
                       IF key = "display_name"
                       THEN MapSet(MapPop(r.reg.service_names,
                                          normalize_name_for_py(service.display_name)),
                                   normalize_name_for_py(value), service.id)
                       ELSE r.reg.service_names
                  /\ services' = MapSet(r.reg.services, service.id, updated)
                  /\ store_files' = IF service_store
                                    THEN save_service(r.reg.store_files, updated)
                                    ELSE r.reg.store_files
      /\ UNCHANGED << service_store, jobVars, ijVars, extVars >>

remove_service(id_or_name) ==
    LET r == get_service(id_or_name) IN
      /\ reg_last' = RegCall("remove", id_or_name, GetOutcome(r))
      /\ store_loads' = r.loads
      /\ IF ~r.found
         THEN UNCHANGED << services, service_names, store_files >>
         ELSE /\ services' = MapPop(r.reg.services, r.service.id)
              /\ store_files' = IF service_store
                                THEN delete_service(r.reg.store_files, r.service.id)
                                ELSE r.reg.store_files
              /\ service_names' =
                   MapPop(r.reg.service_names,
                          normalize_name_for_py(r.service.display_name))
      /\ UNCHANGED << service_store, jobVars, ijVars, extVars >>

ServiceDefinitions ==
    [id : ServiceIds, display_name : DisplayNames, description : Descriptions]

LookupKeys == ServiceIds \cup (DisplayNames \ {NoName})

\* environment: another manager that shares the store directory saves a
\* definition there
store_written(service_def) ==
    /\ service_store
    /\ store_files' = save_service(store_files, service_def)
    /\ reg_last' = RegCall("store", service_def.id, "ok")
    /\ store_loads' = {}
    /\ UNCHANGED << services, service_names, service_store, jobVars, ijVars, extVars >>

\* ServiceManager(service_store): an empty registry, over an empty store
RegInitWith(store) ==
    /\ services = EmptyMap
    /\ service_names = EmptyMap
    /\ reg_last = RegCall(None, NoName, None)
    /\ service_store = store
    /\ store_files = EmptyMap
    /\ store_loads = {}

\* ServiceManager()
RegInit == RegInitWith(FALSE)

-----------------------------------------------------------------------------
(* InternalJob and InternalJobManager *)

Jobs == { "j1", "j2" }

\* submit calls explored
MaxSubmits == 3

JOB_STATUS == { "CREATED", "QUEUED", "PROCESSING", "FAILED", "REQUEST_TIMEOUT", "FINISHED" }

\* InternalJob.finished
finished(j) == status[j] \in { "FINISHED", "FAILED" }

\* InternalJob.has_started
has_started(j) == status[j] \in { "QUEUED", "PROCESSING" }

Submits == Len(queue) + Len(in_progress) + Len(results)

\* list.remove: drops the first element equal to x
RECURSIVE ListRemove(_, _)
ListRemove(l, x) ==
    IF Len(l) = 0 THEN l
    ELSE IF Head(l) = x THEN Tail(l)
    ELSE << Head(l) >> \o ListRemove(Tail(l), x)

\* "for job in self.queue: ... self.queue.remove(job)": the list shrinks
\* while it is iterated; yields the remaining queue and the started jobs
RECURSIVE StartLoop(_, _, _)
StartLoop(q, i, started) ==
    IF i > Len(q) THEN [queue |-> q, started |-> started]
    ELSE StartLoop(ListRemove(q, q[i]), i + 1, Append(started, q[i]))

\* "for job_thread in self.in_progress: if not alive: remove"
RECURSIVE SweepLoop(_, _)
SweepLoop(ip, i) ==
    IF i > Len(ip) THEN ip
    ELSE IF ip[i].state = "dead"
         THEN SweepLoop(ListRemove(ip, ip[i]), i + 1)
         ELSE SweepLoop(ip, i + 1)

NewThreads(started, first) ==
    [k \in 1..Len(started) |->
        [tid |-> first + k, job |-> started[k], state |-> "started"]]

MaxTid == IF Len(in_progress) = 0 THEN Len(results)
          ELSE LET tids == { in_progress[k].tid : k \in 1..Len(in_progress) }
               IN  CHOOSE m \in tids \cup {Len(results)} :
                      \A t \in tids \cup {Len(results)} : t <= m

\* InternalJobManager.submit, called by InternalJob.run
submit(j) ==
    /\ status' = [status EXCEPT ![j] = "QUEUED"]
    /\ queue' = Append(queue, j)
    /\ worker_alive' = TRUE
    /\ UNCHANGED << in_progress, results >>

\* InternalJob.run(run_async=True)
run(j) ==
    /\ Submits < MaxSubmits
    /\ submit(j)
    /\ UNCHANGED << jobVars, regVars, extVars >>

\* InternalJob.wait_for_finished, up to the point where it blocks
wait_for_finished(j) ==
    /\ Submits < MaxSubmits
    /\ ~has_started(j) /\ ~finished(j)
    /\ submit(j)
    /\ UNCHANGED << jobVars, regVars, extVars >>

\* one pass of the loop of process_jobs_in_background
process_jobs_in_background ==
    /\ worker_alive
    /\ LET r == StartLoop(queue, 1, << >>)
           ip == in_progress \o NewThreads(r.started, MaxTid)
       IN  /\ queue' = r.queue
           /\ in_progress' = SweepLoop(ip, 1)
    /\ << queue', in_progress' >> # << queue, in_progress >>
    /\ UNCHANGED << status, results, worker_alive, jobVars, regVars, extVars >>

\* InternalJob._run up to the call of the job function
run_begin(k) ==
    /\ k \in 1..Len(in_progress)
    /\ in_progress[k].state = "started"
    /\ status' = [status EXCEPT ![in_progress[k].job] = "PROCESSING"]
    /\ in_progress' = [in_progress EXCEPT ![k].state = "processing"]
    /\ UNCHANGED << queue, results, worker_alive, jobVars, regVars, extVars >>

\* the job function returned (ok) or raised; process_job stores the job
run_end(k, ok) ==
    /\ k \in 1..Len(in_progress)
    /\ in_progress[k].state = "processing"
    /\ status' = [status EXCEPT ![in_progress[k].job] =
                                    IF ok THEN "FINISHED" ELSE "FAILED"]
    /\ results' = Append(results, in_progress[k].job)
    /\ in_progress' = [in_progress EXCEPT ![k].state = "dead"]
    /\ UNCHANGED << queue, worker_alive, jobVars, regVars, extVars >>

IJInit ==
    /\ status = [j \in Jobs |-> "CREATED"]
    /\ queue = << >>
    /\ in_progress = << >>
    /\ results = << >>
    /\ worker_alive = FALSE

-----------------------------------------------------------------------------
(* One writer thread and reader threads on one ServiceManager.  The manager *)
(* holds no lock: the statements of a call interleave with the statements  *)
(* of the calls of the other threads.                                      *)

Readers == {"r1", "r2"}

WriterIdle == [pc |-> "idle", service |-> None, value |-> NoName]

ReaderIdle == [pc |-> "idle", key |-> NoName, service_id |-> NoName,
               outcome |-> None, service |-> None]

ThrIdle ==
    /\ writer = WriterIdle
    /\ readers = [t \in Readers |-> ReaderIdle]

WriterStep ==
    UNCHANGED << readers, reg_last, service_store, store_files, store_loads,
                 jobVars, ijVars, thrRest >>

\* add_service up to "self._service_names[normalized] = service_def.id"
w_add_names(service_def) ==
    LET stored == [service_def EXCEPT !.display_name = AddedName(service_def)] IN
      /\ writer.pc = "idle"
      /\ service_names' = MapSet(service_names,
                                 normalize_name_for_py(stored.display_name),
                                 stored.id)
      /\ writer' = [pc |-> "add_114", service |-> stored, value |-> NoName]
      /\ UNCHANGED services
      /\ WriterStep

\* add_service: "self._services[service_def.id] = service_def"
w_add_services ==
    /\ writer.pc = "add_114"
    /\ services' = MapSet(services, writer.service.id, writer.service)
    /\ writer' = WriterIdle
    /\ UNCHANGED service_names
    /\ WriterStep

\* update_service(id_or_name, display_name=value) up to
\* "self._service_names.pop(oldnormalized, None)"
w_update_pop(id_or_name, value) ==
    LET r == get_service(id_or_name) IN
      /\ writer.pc = "idle"
      /\ r.found
      /\ service_names' = MapPop(service_names,
                                 normalize_name_for_py(r.service.display_name))
      /\ writer' = [pc |-> "update_228", service |-> r.service, value |-> value]
      /\ UNCHANGED services
      /\ WriterStep

\* update_service: "self._service_names[normalized] = service.id"
w_update_names ==
    /\ writer.pc = "update_228"
    /\ service_names' = MapSet(service_names,
                               normalize_name_for_py(writer.value),
                               writer.service.id)
    /\ writer' = [writer EXCEPT !.pc = "update_232"]
    /\ UNCHANGED services
    /\ WriterStep

\* update_service: "self._services[service.id] = service"
w_update_services ==
    /\ writer.pc = "update_232"
    /\ services' = MapSet(services, writer.service.id, writer.service)
    /\ writer' = WriterIdle
    /\ UNCHANGED service_names
    /\ WriterStep

\* remove_service up to "self._services.pop(service.id)"
w_remove_services(id_or_name) ==
    LET r == get_service(id_or_name) IN
      /\ writer.pc = "idle"
      /\ r.found
      /\ services' = MapPop(services, r.service.id)
      /\ writer' = [pc |-> "remove_261", service |-> r.service, value |-> NoName]
      /\ UNCHANGED service_names
      /\ WriterStep

\* remove_service: "self._service_names.pop(normalized, None)"
w_remove_names ==
    /\ writer.pc = "remove_261"
    /\ service_names' = MapPop(service_names,
                               normalize_name_for_py(writer.service.display_name))
    /\ writer' = WriterIdle
    /\ UNCHANGED services
    /\ WriterStep

ReaderStep == UNCHANGED << writer, regVars, jobVars, ijVars, thrRest >>

ReaderDone(t, outcome, service) ==
    readers' = [readers EXCEPT ![t].pc = "done", ![t].outcome = outcome,
                               ![t].service = service]

\* a reader calls get_service(id_or_name): "if id_or_name in self._services"
r_get_172(t, id_or_name) ==
    /\ readers[t].pc \in {"idle", "done"}
    /\ readers' = [readers EXCEPT ![t] =
                     [ReaderIdle EXCEPT !.key = id_or_name,
                        !.pc = IF id_or_name \in DOMAIN services
                               THEN "173" ELSE "177"]]
    /\ ReaderStep

\* "return self._services[id_or_name]"
r_get_173(t) ==
    /\ readers[t].pc = "173"
    /\ IF readers[t].key \in DOMAIN services
       THEN ReaderDone(t, "ok", services[readers[t].key])
       ELSE ReaderDone(t, "KeyError", None)
    /\ ReaderStep

\* "if normalized in self._service_names"
r_get_177(t) ==
    /\ readers[t].pc = "177"
    /\ IF normalize_name_for_py(readers[t].key) \in DOMAIN service_names
       THEN readers' = [readers EXCEPT ![t].pc = "178"]
       ELSE \* no service store: return None
            ReaderDone(t, "none", None)
    /\ ReaderStep

\* "service_id = self._service_names[normalized]"
r_get_178(t) ==
    /\ readers[t].pc = "178"
    /\ LET normalized == normalize_name_for_py(readers[t].key) IN
         IF normalized \in DOMAIN service_names
         THEN readers' = [readers EXCEPT ![t].pc = "179",
                            ![t].service_id = service_names[normalized]]
         ELSE ReaderDone(t, "KeyError", None)
    /\ ReaderStep

\* "return self._services[service_id]"
r_get_179(t) ==
    /\ readers[t].pc = "179"
    /\ IF readers[t].service_id \in DOMAIN services
       THEN ReaderDone(t, "ok", services[readers[t].service_id])
       ELSE ReaderDone(t, "KeyError", None)
    /\ ReaderStep

-----------------------------------------------------------------------------
(* web.APIClient: one client instance used by several threads *)

Threads == {"t1", "t2"}

\* the thread that constructed the client
MainThread == "t1"

\* service_urls: { service_url_nickname: url }
service_urls ==
    [local |-> "http://localhost:8000", cloud |-> "https://api.socaity.ai",
     pod |-> "https://api.runpod.ai/v2/pod1"]

\* names a caller may pass to the setter
ServiceNames == DOMAIN service_urls \cup {"other"}

\* self._default_service = active_service or next(iter(self.service_urls))
default_service == "local"

\* threading.local(): every thread has its own storage slot
thread_slot_m(t) == MainThread
thread_slot(t) == t

\* hasattr(self._thread_local, 'current_service')
has_current_service(t) == thread_slot(t) \in DOMAIN thread_local

\* what the getter of active_service returns in thread t
active_service(t) ==
    IF has_current_service(t) THEN thread_local[thread_slot(t)]
    ELSE default_service

\* the url the next request of thread t goes to
target_url(t) ==
    IF active_service(t) \in DOMAIN request_handlers
    THEN request_handlers[active_service(t)]
    ELSE service_urls[active_service(t)]

CallerIdle == [pc |-> "idle", handler |-> None]

ClientStep == UNCHANGED << jobVars, regVars, ijVars, clientRest >>

\* the setter of active_service, called in thread t
set_active_service(t, service_name) ==
    /\ callers[t].pc = "idle"
    /\ IF service_name \notin DOMAIN service_urls
       THEN \* raise ValueError
            UNCHANGED thread_local
       ELSE thread_local' = MapSet(thread_local, thread_slot(t), service_name)
    /\ UNCHANGED << request_handlers, callers, sent_to >>
    /\ ClientStep

\* _get_current_request_handler, called by the endpoint function in thread t
get_current_request_handler(t) ==
    LET current_service == active_service(t)
        handlers == IF current_service \in DOMAIN request_handlers
                    THEN request_handlers
                    ELSE MapSet(request_handlers, current_service,
                                service_urls[current_service])
    IN  /\ callers[t].pc = "idle"
        /\ thread_local' = MapSet(thread_local, thread_slot(t), current_service)
        /\ request_handlers' = handlers
        /\ callers' = [callers EXCEPT ![t] =
                         [pc |-> "request", handler |-> handlers[current_service]]]
        /\ UNCHANGED sent_to
        /\ ClientStep

\* endpoint_request.request(...) with the handler the thread holds
request(t) ==
    /\ callers[t].pc = "request"
    /\ sent_to' = [sent_to EXCEPT ![t] = callers[t].handler]
    /\ callers' = [callers EXCEPT ![t] = CallerIdle]
    /\ UNCHANGED << thread_local, request_handlers >>
    /\ ClientStep

\* APIClient(service_urls): the constructing thread has its slot set
ClientInit ==
    /\ thread_local = MapSet(EmptyMap, thread_slot(MainThread), default_service)
    /\ request_handlers = EmptyMap
    /\ callers = [t \in Threads |-> CallerIdle]
    /\ sent_to = [t \in Threads |-> None]

-----------------------------------------------------------------------------
(* ResponseParser and its strategies.  A JSON value is an object (a map of *)
(* its members), an array, or a string given with what json.loads makes of *)
(* its text.  A parsed response is the map of its fields that are not None. *)

JsonObject(members) == [json |-> "object", members |-> members]

JsonArray == [json |-> "array"]

NotJson == [json |-> "invalid"]

\* a string value: its text and the JSON value its text decodes to
JsonString(text, loads) == [json |-> "string", text |-> text, loads |-> loads]

\* json.loads(text)
json_loads(str) == str.loads

\* isinstance(body, dict)
IsDict(body) == body.json = "object"

\* body.get(key) for a member that is a string or absent
Get(body, key) ==
    IF key \in DOMAIN body.members THEN body.members[key] ELSE None

\* a field of the parsed response taken from a member of the body, if present
Pick(body, key, field) ==
    IF key \in DOMAIN body.members THEN field :> body.members[key] ELSE EmptyMap

\* str.upper() on the status strings services send
upper(str) ==
    CASE str = "finished"   -> "FINISHED"
      [] str = "succeeded"  -> "SUCCEEDED"
      [] str = "processing" -> "PROCESSING"
      [] str = "starting"   -> "STARTING"
      [] str = "completed"  -> "COMPLETED"
      [] OTHER              -> str

map_runpod_status(st) ==
    CASE st = "IN_QUEUE"    -> "QUEUED"
      [] st = "IN_PROGRESS" -> "PROCESSING"
      [] st = "COMPLETED"   -> "FINISHED"
      [] st = "FAILED"      -> "FAILED"
      [] st = "CANCELLED"   -> "CANCELLED"
      [] st = "TIMED_OUT"   -> "TIMEOUT"
      [] OTHER              -> "UNKNOWN"

map_replicate_status(st) ==
    CASE st = "STARTING"   -> "QUEUED"
      [] st = "BOOTING"    -> "PROCESSING"
      [] st = "PROCESSING" -> "PROCESSING"
      [] st = "SUCCEEDED"  -> "FINISHED"
      [] st = "FAILED"     -> "FAILED"
      [] st = "CANCELED"   -> "CANCELLED"
      [] OTHER             -> "UNKNOWN"

\* APIJobStatus.from_str
from_str(status_str) ==
    IF status_str = None THEN "UNKNOWN"
    ELSE LET u == upper(status_str) IN
           IF u \in APIJobStatus THEN u
           ELSE IF map_runpod_status(u) # "UNKNOWN" THEN map_runpod_status(u)
           ELSE map_replicate_status(u)

\* progress in percent: 100 is the float 1.0
ProgressDone == 100

\* JobProgress(progress=..., message=...)
JobProgress(progress, message) == [progress |-> progress, message |-> message]

\* ResponseParserStrategy.parse_status_and_progress: the "progress" member is
\* a number or a {progress, message} object
parse_status_and_progress(body) ==
    LET st == from_str(Get(body, "status"))
        progress_value == IF "progress" \in DOMAIN body.members
                          THEN body.members["progress"].progress ELSE 0
        message == IF "progress" \in DOMAIN body.members
                   THEN body.members["progress"].message ELSE None
    IN  [status |-> st,
         progress |-> JobProgress(IF st = "FINISHED" THEN ProgressDone
                                  ELSE progress_value, message)]

\* f'/status/{data["id"]}'
status_url(id) ==
    CASE id = "s1" -> "/status/s1" [] id = "r1" -> "/status/r1"
      [] id = "r2" -> "/status/r2" [] OTHER -> "/status/"

\* f'/cancel/{data["id"]}'
cancel_url(id) ==
    CASE id = "s1" -> "/cancel/s1" [] id = "r1" -> "/cancel/r1"
      [] id = "r2" -> "/cancel/r2" [] OTHER -> "/cancel/"

\* f"v1/predictions/{job_id}/cancel"
replicate_cancel_url(id) ==
    IF id = "p1" THEN "v1/predictions/p1/cancel" ELSE "v1/predictions//cancel"

\* the fields of the response classes
BaseFields == {"id", "status", "progress", "error", "result", "refresh_job_url",
               "cancel_job_url", "service_specification"}

ClassFields(cls) ==
    CASE cls = "SocaityJobResponse" ->
           BaseFields \cup {"created_at", "execution_started_at",
                            "execution_finished_at", "endpoint_protocol"}
      [] cls = "RunpodJobResponse" ->
           BaseFields \cup {"delayTime", "executionTime", "retries", "workerId"}
      [] cls = "ReplicateJobResponse" ->
           BaseFields \cup {"created_at", "execution_started_at",
                            "execution_finished_at", "metrics", "stream_job_url",
                            "version", "data_removed", "logs", "endpoint_protocol"}

SocaityResponseParser_can_parse(body) ==
    /\ IsDict(body)
    /\ Get(body, "endpoint_protocol") = "socaity"
    /\ "id" \in DOMAIN body.members
    /\ "status" \in DOMAIN body.members

\* SocaityResponseParser.parse; a result that is a string is no media
SocaityResponseParser_parse(body) ==
    LET sp == parse_status_and_progress(body) IN
      ("cls" :> "SocaityJobResponse") @@ ("id" :> body.members["id"])
      @@ ("status" :> sp.status) @@ ("progress" :> sp.progress)
      @@ Pick(body, "error", "error") @@ Pick(body, "result", "result")
      @@ ("refresh_job_url" :> status_url(body.members["id"]))
      @@ ("cancel_job_url" :> cancel_url(body.members["id"]))
      @@ Pick(body, "created_at", "created_at")
      @@ Pick(body, "endpoint_protocol", "endpoint_protocol")

RunpodResponseParser_can_parse(body) ==
    /\ IsDict(body)
    /\ "id" \in DOMAIN body.members
    /\ "status" \in DOMAIN body.members
    /\ map_runpod_status(Get(body, "status")) # "UNKNOWN"

RunpodResponseParser_parse(body) ==
    LET sp == parse_status_and_progress(body) IN
      ("cls" :> "RunpodJobResponse") @@ ("id" :> body.members["id"])
      @@ ("status" :> sp.status) @@ Pick(body, "error", "error")
      @@ ("progress" :> sp.progress) @@ Pick(body, "output", "result")
      @@ ("refresh_job_url" :> status_url(body.members["id"]))
      @@ ("cancel_job_url" :> cancel_url(body.members["id"]))
      @@ Pick(body, "workerId", "workerId")

\* "api.replicate.com" in urls.get("get", "")
IsReplicateUrl(url) == url = "https://api.replicate.com/v1/predictions/p1"

\* ReplicateResponseParser.can_parse, for a dict
ReplicateResponseParser_can_parse(body) ==
    /\ "urls" \in DOMAIN body.members
    /\ IsReplicateUrl(body.members["urls"])

\* the status ReplicateResponseParser.parse gives the response
replicate_status(body) ==
    LET st == parse_status_and_progress(body).status IN
      IF /\ st = "UNKNOWN"
         /\ Get(body, "status_code") \in {None, "200"}
         /\ Get(body, "is_error") \in {None, "false"}
      THEN "FINISHED" ELSE st

\* job_id = data.get("id", "")
job_id(body) == IF "id" \in DOMAIN body.members THEN body.members["id"] ELSE ""

ReplicateResponseParser_parse(body) ==
    LET sp == parse_status_and_progress(body) IN
      ("cls" :> "ReplicateJobResponse") @@ ("id" :> job_id(body))
      @@ ("status" :> replicate_status(body)) @@ Pick(body, "error", "error")
      @@ ("progress" :> sp.progress) @@ Pick(body, "output", "result")
      @@ ("refresh_job_url" :> body.members["urls"])
      @@ ("cancel_job_url" :> replicate_cancel_url(job_id(body)))
      @@ Pick(body, "version", "version")
      @@ Pick(body, "created_at", "created_at")
      @@ ("endpoint_protocol" :> "replicate")

\* self.strategies
strategies == << "socaity", "runpod", "replicate" >>

\* for a value that is no dict only the first two strategies test the type:
\* ReplicateResponseParser.can_parse calls body.get and raises AttributeError
can_parse(strategy, body) ==
    CASE strategy = "socaity"   -> SocaityResponseParser_can_parse(body)
      [] strategy = "runpod"    -> RunpodResponseParser_can_parse(body)
      [] strategy = "replicate" -> ReplicateResponseParser_can_parse(body)

can_parse_raises(strategy, body) == strategy = "replicate" /\ ~IsDict(body)

strategy_parse(strategy, body) ==
    CASE strategy = "socaity"   -> SocaityResponseParser_parse(body)
      [] strategy = "runpod"    -> RunpodResponseParser_parse(body)
      [] strategy = "replicate" -> ReplicateResponseParser_parse(body)

\* index of the first strategy from i on that stops the loop (it matches or
\* raises), Len(strategies) + 1 if there is none
RECURSIVE first_match(_, _)
first_match(body, i) ==
    IF i > Len(strategies) THEN i
    ELSE IF can_parse_raises(strategies[i], body) \/ can_parse(strategies[i], body)
    THEN i
    ELSE first_match(body, i + 1)

\* the strategies the loop of parse_response calls can_parse on
strategies_consulted(body) ==
    SubSeq(strategies, 1,
           IF first_match(body, 1) > Len(strategies) THEN Len(strategies)
           ELSE first_match(body, 1))

\* parse_response was not called yet
NotParsed == [cls |-> "none"]

ParseError(error) == [cls |-> "raised", error |-> error]

RawData(body) == [cls |-> "raw", body |-> body]

IsJobResponse(r) == r.cls \in {"SocaityJobResponse", "RunpodJobResponse",
                               "ReplicateJobResponse"}

\* BaseJobResponse.update(other): other.model_dump(exclude_unset=True), and
\* "if hasattr(self, key) and value is not None: setattr(self, key, value)"
update_m(self, other) == self
update(self, other) ==
    LET keys == (DOMAIN other \ {"cls"}) \cap ClassFields(self.cls) IN
      [k \in DOMAIN self \cup keys |-> IF k \in keys THEN other[k] ELSE self[k]]

\* isinstance(parsed_response.result, str)
HasStringResult(r) == "result" \in DOMAIN r /\ r.result.json = "string"

\* ResponseParser.parse_response for a JSON response with body body
RECURSIVE ResponseParser_parse_response(_)
ResponseParser_parse_response(body) ==
    LET i == first_match(body, 1) IN
    IF i > Len(strategies) THEN RawData(body)
    ELSE IF can_parse_raises(strategies[i], body) THEN ParseError("AttributeError")
    ELSE LET parsed_response == strategy_parse(strategies[i], body) IN
      IF parsed_response.cls = "RunpodJobResponse" /\ HasStringResult(parsed_response)
      THEN LET nested_body == json_loads(parsed_response.result) IN
             IF nested_body.json = "invalid" THEN parsed_response
             ELSE LET j == first_match(nested_body, 1) IN
               IF j > Len(strategies) THEN parsed_response
               ELSE IF can_parse_raises(strategies[j], nested_body)
               THEN ParseError("AttributeError")
               ELSE LET nested_response == ResponseParser_parse_response(nested_body)
                    IN  IF IsJobResponse(nested_response)
                        THEN update(parsed_response, nested_response)
                        ELSE nested_response
      ELSE parsed_response

\* _process_result: "return result.result" for a job response
result_of(r) ==
    IF ~IsJobResponse(r) THEN r
    ELSE IF "result" \in DOMAIN r THEN r.result ELSE JsonString(None, NotJson)

\* ---- JSON bodies handed to the parser ----

\* a member that may be absent
Opt(key, values) == {EmptyMap} \cup { key :> v : v \in values }

PlainText == JsonString("ok", NotJson)

ProgressMembers ==
    { JobProgress(30, None), JobProgress(60, "half") }

SocaityBodies ==
    { JsonObject(("endpoint_protocol" :> "socaity") @@ ("id" :> "s1")
                 @@ ("status" :> st) @@ r @@ p @@ c) :
        st \in {"FINISHED", "PROCESSING", "finished", "FAILED"},
        r \in Opt("result", {PlainText}),
        p \in Opt("progress", ProgressMembers),
        c \in Opt("created_at", {"t0"}) }

ReplicateBodies ==
    { JsonObject(("urls" :> "https://api.replicate.com/v1/predictions/p1")
                 @@ ("id" :> "p1") @@ st @@ sc @@ o) :
        st \in Opt("status", {"succeeded", "processing", "weird"}),
        sc \in Opt("status_code", {"500"}),
        o \in Opt("output", {PlainText}) }

\* bodies no strategy matches
UnmatchedBodies ==
    { JsonObject("foo" :> "1"),
      JsonObject(("id" :> "s1") @@ ("status" :> "FINISHED")),
      JsonObject(("id" :> "s1") @@ ("urls" :> "https://example.com/p1")),
      JsonArray }

\* what the output string of a Runpod worker may decode to
NestedBodies ==
    { b \in SocaityBodies : "created_at" \in DOMAIN b.members
                            /\ "progress" \notin DOMAIN b.members }
    \cup { b \in ReplicateBodies : "status_code" \notin DOMAIN b.members }
    \cup UnmatchedBodies

RunpodOutputs ==
    {PlainText} \cup { JsonString("json", b) : b \in NestedBodies }

RunpodBodies ==
    { JsonObject(("id" :> "r1") @@ ("status" :> st) @@ w @@ o) :
        st \in {"IN_QUEUE", "IN_PROGRESS", "COMPLETED", "FAILED"},
        w \in Opt("workerId", {"w1"}),
        o \in Opt("output", RunpodOutputs) }

ResponseBodies ==
    SocaityBodies \cup RunpodBodies \cup ReplicateBodies \cup UnmatchedBodies

RespStep == UNCHANGED << jobVars, regVars, ijVars, respRest >>

\* the response parser is handed the JSON response
parse_response_call ==
    /\ parsed = NotParsed
    /\ parsed' = ResponseParser_parse_response(response_body)
    /\ consulted' = strategies_consulted(response_body)
    /\ UNCHANGED << response_body, final_value >>
    /\ RespStep

\* the Processing result task on the parsed response
process_parsed ==
    /\ parsed.cls \notin {"none", "raised"}
    /\ ~final_value.returned
    /\ final_value' = [returned |-> TRUE, value |-> result_of(parsed)]
    /\ UNCHANGED << response_body, parsed, consulted >>
    /\ RespStep

RespInitWith(bodies) ==
    /\ response_body \in bodies
    /\ parsed = NotParsed
    /\ consulted = << >>
    /\ final_value = [returned |-> FALSE, value |-> None]

-----------------------------------------------------------------------------
(* Python strings: sequences of characters *)

\* None where a string is expected
NoStr == << "None" >>

StartsWith(str, prefix) ==
    Len(prefix) <= Len(str) /\ SubSeq(str, 1, Len(prefix)) = prefix

EndsWith(str, suffix) ==
    Len(suffix) <= Len(str)
    /\ SubSeq(str, Len(str) - Len(suffix) + 1, Len(str)) = suffix

\* sub in str
Contains(str, sub) ==
    \E i \in 1..(Len(str) - Len(sub) + 1) : SubSeq(str, i, i + Len(sub) - 1) = sub

\* str.find(sub) + 1: position of the first occurrence, 0 if there is none
Find(str, sub) ==
    IF Contains(str, sub)
    THEN CHOOSE i \in 1..(Len(str) - Len(sub) + 1) :
            /\ SubSeq(str, i, i + Len(sub) - 1) = sub
            /\ \A j \in 1..(i - 1) : SubSeq(str, j, j + Len(sub) - 1) # sub
    ELSE 0

\* str.lstrip(c)
RECURSIVE lstrip(_, _)
lstrip(str, c) ==
    IF Len(str) > 0 /\ Head(str) = c THEN lstrip(Tail(str), c) ELSE str

\* str.rstrip(c)
RECURSIVE rstrip(_, _)
rstrip(str, c) ==
    IF Len(str) > 0 /\ str[Len(str)] = c
    THEN rstrip(SubSeq(str, 1, Len(str) - 1), c) ELSE str

\* str.strip(c)
strip(str, c) == rstrip(lstrip(str, c), c)

\* str.split(sep): the sequence of the parts
RECURSIVE split(_, _)
split(str, sep) ==
    LET i == Find(str, sep) IN
      IF i = 0 THEN << str >>
      ELSE << SubSeq(str, 1, i - 1) >>
           \o split(SubSeq(str, i + Len(sep), Len(str)), sep)

\* str.split(sep, 1)
split_once(str, sep) ==
    LET i == Find(str, sep) IN
      IF i = 0 THEN << str >>
      ELSE << SubSeq(str, 1, i - 1), SubSeq(str, i + Len(sep), Len(str)) >>

\* sep.join(parts)
RECURSIVE join(_, _)
join(parts, sep) ==
    IF Len(parts) = 0 THEN << >>
    ELSE IF Len(parts) = 1 THEN parts[1]
    ELSE parts[1] \o sep \o join(Tail(parts), sep)

\* str.replace(old, "")
remove_all(str, old) == join(split(str, old), << >>)

-----------------------------------------------------------------------------
(* service_adress_parser: create_service_address *)

\* _url_sanitize
url_sanitize(url) ==
    IF url = << >> THEN url
    ELSE LET u == strip(url, "/") IN
      IF ~Contains(u, << "/" >>) /\ ~Contains(u, << "w", "w", "w", "." >>) /\ ~Contains(u, << "h", "t", "t", "p" >>)
      THEN \* "looks like something else!"
           u
      ELSE IF ~StartsWith(u, << "h", "t", "t", "p" >>) THEN << "h", "t", "t", "p", ":", "/", "/" >> \o u
      ELSE u

\* urllib.parse.urlparse(url) for "scheme://netloc/path"
urlparse(url) ==
    LET i == Find(url, << ":", "/", "/" >>)
        rest == SubSeq(url, i + 3, Len(url))
        j == Find(rest, << "/" >>)
    IN  IF i = 0 THEN [scheme |-> << >>, netloc |-> << >>, path |-> url]
        ELSE IF j = 0
        THEN [scheme |-> SubSeq(url, 1, i - 1), netloc |-> rest, path |-> << >>]
        ELSE [scheme |-> SubSeq(url, 1, i - 1), netloc |-> SubSeq(rest, 1, j - 1),
              path |-> SubSeq(rest, j, Len(rest))]

\* parse_runpod_url: (url, pod_id, path)
parse_runpod_url(address) ==
    LET runpod_url == << "h", "t", "t", "p", "s", ":", "/", "/", "a", "p", "i", ".", "r", "u", "n", "p", "o", "d", ".", "a", "i", "/", "v", "2", "/" >>
        url == IF ~Contains(address, << "h", "t", "t", "p" >>)
               THEN IF Contains(address, << "l", "o", "c", "a", "l", "h", "o", "s", "t" >>)
                    THEN << "h", "t", "t", "p", ":", "/", "/" >> \o address
                    ELSE runpod_url \o address
               ELSE address
        parsed_url == urlparse(url)
        path1 == IF StartsWith(parsed_url.path, << "/", "v", "2", "/" >>)
                 THEN SubSeq(parsed_url.path, 5, Len(parsed_url.path))
                 ELSE parsed_url.path
        path2 == remove_all(path1, << "/", "r", "u", "n" >>)
        parts == split_once(path2, << "/" >>)
    IN  IF Contains(url, << "a", "p", "i", ".", "r", "u", "n", "p", "o", "d", ".", "a", "i" >>)
        THEN [url |-> parsed_url.scheme \o << ":", "/", "/" >> \o parsed_url.netloc
                      \o << "/", "v", "2", "/" >> \o parts[1],
              pod_id |-> parts[1],
              path |-> IF Len(parts) > 1 THEN parts[2] ELSE << >>]
        ELSE [url |-> parsed_url.scheme \o << ":", "/", "/" >> \o parsed_url.netloc,
              pod_id |-> NoStr,
              path |-> path2]

ReplicateParsed(url, model_name, version) ==
    [raised |-> FALSE, url |-> url, model_name |-> model_name, version |-> version]

\* parse_replicate_url: (address, model_name, model_version), or it raises
parse_replicate_url(url) ==
    LET base_url == << "h", "t", "t", "p", "s", ":", "/", "/", "a", "p", "i", ".", "r", "e", "p", "l", "i", "c", "a", "t", "e", ".", "c", "o", "m", "/", "v", "1" >>
        models_url == base_url \o << "/", "m", "o", "d", "e", "l", "s" >>
        predictions_url == base_url \o << "/", "p", "r", "e", "d", "i", "c", "t", "i", "o", "n", "s" >>
    IN  IF StartsWith(url, models_url)
        THEN LET parts == split(SubSeq(url, Len(models_url) + 2, Len(url)), << "/" >>) IN
               IF Len(parts) < 2
               THEN [raised |-> TRUE, url |-> url, model_name |-> NoStr,
                     version |-> NoStr]
               ELSE LET usr == parts[1]
                        named == split(parts[2], << ":" >>)
                        model_name == named[1]
                        version == IF Len(named) > 1 THEN named[2] ELSE NoStr
                        parsed_uri == models_url \o << "/" >> \o usr \o << "/" >> \o model_name
                    IN  ReplicateParsed(
                          (IF version # NoStr /\ version # << >>
                           THEN parsed_uri \o << ":" >> \o version ELSE parsed_uri)
                          \o << "/", "p", "r", "e", "d", "i", "c", "t", "i", "o", "n", "s" >>,
                          usr \o << "/" >> \o model_name, version)
        ELSE IF StartsWith(url, predictions_url)
        THEN LET parts == split(url, << "/" >>) IN
               ReplicateParsed(predictions_url, NoStr, parts[Len(parts)])
        ELSE IF Contains(url, << "/" >>)
        THEN \* "case user/modelname": base_url + url
             ReplicateParsed(base_url \o url, url, NoStr)
        ELSE ReplicateParsed(predictions_url, NoStr, url)

\* determine_service_type
determine_service_type(service_url) ==
    IF Contains(service_url, << "s", "o", "c", "a", "i", "t", "y", ".", "a", "i" >>) THEN "socaity"
    ELSE IF Contains(service_url, << "a", "p", "i", ".", "r", "u", "n", "p", "o", "d", ".", "a", "i" >>) THEN "runpod"
    ELSE IF Contains(service_url, << "a", "p", "i", ".", "r", "e", "p", "l", "i", "c", "a", "t", "e", ".", "c", "o", "m" >>) THEN "replicate"
    ELSE "other"

Address(cls, url, model_name, version, pod_id, path) ==
    [cls |-> cls, url |-> url, model_name |-> model_name, version |-> version,
     pod_id |-> pod_id, path |-> path]

\* create_service_address raised (parse_replicate_url raises; a
\* RunpodServiceAddress without pod_id fails validation)
AddressError == Address("raised", NoStr, NoStr, NoStr, NoStr, NoStr)

\* create_service_address(address, provider) for a string that is not empty
create_service_address(address, provider) ==
    LET st == IF provider # None THEN provider ELSE determine_service_type(address) IN
      CASE st = "socaity" ->
             Address("SocaityServiceAddress", url_sanitize(address),
                     NoStr, NoStr, NoStr, NoStr)
        [] st = "replicate" ->
             LET r == parse_replicate_url(address) IN
               IF r.raised THEN AddressError
               ELSE Address("ReplicateServiceAddress", url_sanitize(r.url),
                            r.model_name, r.version, NoStr, NoStr)
        [] st = "runpod" ->
             LET r == parse_runpod_url(address) IN
               IF r.pod_id = NoStr THEN AddressError
               ELSE Address("RunpodServiceAddress", url_sanitize(r.url),
                            NoStr, NoStr, r.pod_id, r.path)
        [] OTHER ->
             Address("ServiceAddress", url_sanitize(address),
                     NoStr, NoStr, NoStr, NoStr)

-----------------------------------------------------------------------------
(* The provider variants of service_interaction.request.APIClient *)

NoAddress == Address("none", NoStr, NoStr, NoStr, NoStr, NoStr)

NoClient == [cls |-> "none", poll_method |-> "none"]

NoCall == [kind |-> "none", method |-> "none", url |-> NoStr, version |-> NoStr,
           path |-> NoStr]

\* ApiJobManager._determine_service_type
service_type_of(address, spec) ==
    CASE address.cls = "RunpodServiceAddress"    -> "runpod"
      [] address.cls = "SocaityServiceAddress"   -> "socaity"
      [] address.cls = "ReplicateServiceAddress" -> "replicate"
      [] OTHER -> IF spec \in {"fasttaskapi", "socaity"} THEN "socaity"
                  ELSE IF spec = "runpod" THEN "runpod"
                  ELSE "other"

\* APIClient.__init__: self.poll_method = "POST"; APIClientReplicate.__init__
\* sets "GET"
poll_method_of(cls) == IF cls = "APIClientReplicate" THEN "GET" ELSE "POST"

ClientClass(service_type) ==
    CASE service_type = "runpod"    -> "APIClientRunpod"
      [] service_type = "socaity"   -> "APIClientSocaity"
      [] service_type = "replicate" -> "APIClientReplicate"
      [] OTHER                      -> "APIClient"

\* APIClientSocaity.validate_api_key reads self.service_address, which no
\* client has: for a SocaityServiceAddress the constructor raises
constructor_raises(cls, address) ==
    cls = "APIClientSocaity" /\ address.cls = "SocaityServiceAddress"

\* the client add_api_client creates for a service with a valid API key
new_api_client(address, spec) ==
    LET cls == ClientClass(service_type_of(address, spec)) IN
      IF constructor_raises(cls, address)
      THEN [cls |-> "raised", poll_method |-> "none"]
      ELSE [cls |-> cls, poll_method |-> poll_method_of(cls)]

\* _build_request_url of the client class, without query parameters
build_request_url(cls, address, endpoint_path) ==
    CASE cls = "APIClientReplicate" -> address.url
      [] cls = "APIClientRunpod" ->
           LET url == strip(address.url, "/") IN
             (IF EndsWith(url, << "/", "r", "u", "n" >>) THEN SubSeq(url, 1, Len(url) - 4) ELSE url)
             \o << "/", "r", "u", "n" >>
      [] OTHER -> address.url \o << "/" >> \o lstrip(endpoint_path, "/")

\* APIClientReplicate.send_request: body['version'] = version
body_version(cls, address, url) ==
    IF /\ cls = "APIClientReplicate"
       /\ Contains(url, << "/", "p", "r", "e", "d", "i", "c", "t", "i", "o", "n", "s" >>)
       /\ address.version # NoStr /\ address.version # << >>
    THEN address.version ELSE NoStr

\* APIClientRunpod.format_request_params: body_params["path"] = endpoint.path
body_path(cls, endpoint_path) ==
    IF cls = "APIClientRunpod" /\ endpoint_path # << >> THEN endpoint_path ELSE NoStr

\* request_url: the method that is used for the call
request_method(method) ==
    IF method \in {"GET", "POST", "PUT", "DELETE"} THEN method ELSE "POST"

\* request_url: the url that is called
request_url(address, url) ==
    IF StartsWith(url, << "h", "t", "t", "p", ":", "/", "/" >>) \/ StartsWith(url, << "h", "t", "t", "p", "s", ":", "/", "/" >>) THEN url
    ELSE address.url \o << "/" >> \o lstrip(url, "/")

\* endpoint.path of the endpoint that is called
EndpointPath == << "/", "g", "e", "n", "e", "r", "a", "t", "e" >>

\* refresh_job_url of the job response that is polled
RefreshUrls == { << "/", "s", "t", "a", "t", "u", "s", "/", "j", "1" >>, << "h", "t", "t", "p", "s", ":", "/", "/", "a", "p", "i", ".", "r", "e", "p", "l", "i", "c", "a", "t", "e", ".", "c", "o", "m", "/", "v", "1", "/", "p", "r", "e", "d", "i", "c", "t", "i", "o", "n", "s", "/", "p", "1" >> }

AddrStep == UNCHANGED << jobVars, regVars, ijVars, addrRest >>

\* ServiceManager.add_service: create_service_address(service_address,
\* service_def.specification)
create_address ==
    /\ service_address.cls = "none"
    /\ service_address' = create_service_address(address_input.address,
                                                 address_input.provider)
    /\ UNCHANGED << address_input, reparsed, api_client, wire >>
    /\ AddrStep

\* the url of the address is parsed again
reparse_url ==
    /\ service_address.cls \notin {"none", "raised"}
    /\ service_address.url # << >>
    /\ reparsed.cls = "none"
    /\ reparsed' = create_service_address(service_address.url,
                                          address_input.provider)
    /\ UNCHANGED << address_input, service_address, api_client, wire >>
    /\ AddrStep

\* ApiJobManager.add_api_client
add_api_client ==
    /\ service_address.cls \notin {"none", "raised"}
    /\ api_client.cls = "none"
    /\ api_client' = new_api_client(service_address, address_input.provider)
    /\ UNCHANGED << address_input, service_address, reparsed, wire >>
    /\ AddrStep

\* format_request_params and send_request of the client
client_send_request ==
    /\ api_client.cls \notin {"none", "raised"}
    /\ wire.kind = "none"
    /\ LET url == build_request_url(api_client.cls, service_address, EndpointPath) IN
         wire' = [kind |-> "send", method |-> "POST", url |-> url,
                  version |-> body_version(api_client.cls, service_address, url),
                  path |-> body_path(api_client.cls, EndpointPath)]
    /\ UNCHANGED << address_input, service_address, reparsed, api_client >>
    /\ AddrStep

\* APIClient.poll_status(response) for a job response
client_poll_status(refresh_job_url) ==
    /\ api_client.cls \notin {"none", "raised"}
    /\ wire.kind = "send"
    /\ wire' = [kind |-> "poll", method |-> request_method(api_client.poll_method),
                url |-> request_url(service_address, refresh_job_url),
                version |-> NoStr, path |-> NoStr]
    /\ UNCHANGED << address_input, service_address, reparsed, api_client >>
    /\ AddrStep

\* the addresses users register services with, and the provider hint
AddressInputs ==
    { [address |-> << "u", "s", "e", "r", "/", "m", "o", "d", "e", "l", ":", "v", "1" >>, provider |-> "replicate"],
      [address |-> << "u", "s", "e", "r", "/", "m", "o", "d", "e", "l" >>, provider |-> "replicate"],
      [address |-> << "h", "t", "t", "p", "s", ":", "/", "/", "a", "p", "i", ".", "r", "e", "p", "l", "i", "c", "a", "t", "e", ".", "c", "o", "m", "/", "v", "1", "/", "m", "o", "d", "e", "l", "s", "/", "u", "s", "e", "r", "/", "m", "o", "d", "e", "l" >>, provider |-> None],
      [address |-> << "h", "t", "t", "p", "s", ":", "/", "/", "a", "p", "i", ".", "r", "e", "p", "l", "i", "c", "a", "t", "e", ".", "c", "o", "m", "/", "v", "1", "/", "m", "o", "d", "e", "l", "s", "/", "u", "s", "e", "r", "/", "m", "o", "d", "e", "l", ":", "v", "1" >>, provider |-> None],
      [address |-> << "h", "t", "t", "p", "s", ":", "/", "/", "a", "p", "i", ".", "r", "e", "p", "l", "i", "c", "a", "t", "e", ".", "c", "o", "m", "/", "v", "1", "/", "m", "o", "d", "e", "l", "s", "/", "u", "s", "e", "r", "/", "m", "o", "d", "e", "l", ":", "v", "1" >>, provider |-> "replicate"],
      [address |-> << "h", "t", "t", "p", "s", ":", "/", "/", "a", "p", "i", ".", "r", "e", "p", "l", "i", "c", "a", "t", "e", ".", "c", "o", "m", "/", "v", "1", "/", "p", "r", "e", "d", "i", "c", "t", "i", "o", "n", "s", "/", "a", "b", "c" >>, provider |-> None],
      [address |-> << "a", "b", "c" >>, provider |-> "replicate"],
      [address |-> << "p", "o", "d", "1" >>, provider |-> "runpod"],
      [address |-> << "p", "o", "d", "1", "/", "r", "u", "n" >>, provider |-> "runpod"],
      [address |-> << "h", "t", "t", "p", "s", ":", "/", "/", "a", "p", "i", ".", "r", "u", "n", "p", "o", "d", ".", "a", "i", "/", "v", "2", "/", "p", "o", "d", "1", "/", "r", "u", "n" >>, provider |-> None],
      [address |-> << "h", "t", "t", "p", "s", ":", "/", "/", "a", "p", "i", ".", "r", "u", "n", "p", "o", "d", ".", "a", "i", "/", "v", "2", "/", "p", "o", "d", "1", "/", "g", "e", "n" >>, provider |-> None],
      [address |-> << "h", "t", "t", "p", "s", ":", "/", "/", "a", "p", "i", ".", "r", "u", "n", "p", "o", "d", ".", "a", "i", "/", "v", "2", "/", "p", "o", "d", "1" >>, provider |-> "runpod"],
      [address |-> << "l", "o", "c", "a", "l", "h", "o", "s", "t", ":", "8", "0", "0", "0", "/", "p", "o", "d", "1", "/", "r", "u", "n" >>, provider |-> "runpod"],
      [address |-> << "l", "o", "c", "a", "l", "h", "o", "s", "t", ":", "8", "0", "0", "0" >>, provider |-> None],
      [address |-> << "l", "o", "c", "a", "l", "h", "o", "s", "t", ":", "8", "0", "0", "0", "/", "a", "p", "i" >>, provider |-> None],
      [address |-> << "h", "t", "t", "p", ":", "/", "/", "l", "o", "c", "a", "l", "h", "o", "s", "t", ":", "8", "0", "0", "0", "/" >>, provider |-> None],
      [address |-> << "h", "t", "t", "p", ":", "/", "/", "l", "o", "c", "a", "l", "h", "o", "s", "t", ":", "8", "0", "0", "0", "/" >>, provider |-> "fasttaskapi"],
      [address |-> << "h", "t", "t", "p", ":", "/", "/", "l", "o", "c", "a", "l", "h", "o", "s", "t", ":", "8", "0", "0", "0" >>, provider |-> "runpod"],
      [address |-> << "h", "t", "t", "p", "s", ":", "/", "/", "a", "p", "i", ".", "s", "o", "c", "a", "i", "t", "y", ".", "a", "i", "/", "v", "1" >>, provider |-> None],
      [address |-> << "a", "p", "i", ".", "s", "o", "c", "a", "i", "t", "y", ".", "a", "i", "/", "v", "1", "/" >>, provider |-> "socaity"],
      [address |-> << "w", "w", "w", ".", "e", "x", "a", "m", "p", "l", "e", ".", "c", "o", "m" >>, provider |-> None],
      [address |-> << "e", "x", "a", "m", "p", "l", "e", ".", "c", "o", "m" >>, provider |-> "openapi"] }

AddrInitWith(inputs) ==
    /\ address_input \in inputs
    /\ service_address = NoAddress
    /\ reparsed = NoAddress
    /\ api_client = NoClient
    /\ wire = NoCall

AddrIdle == AddrInitWith({ [address |-> << "p", "o", "d", "1" >>, provider |-> "runpod"] })

-----------------------------------------------------------------------------
(* The specification loaders: load_spec of service_specification_loader    *)
(* (used by FastSDK.load_service_definition) and load_spec of              *)
(* service_management.parsers (used by ServiceManager.add_service through  *)
(* parse_service_definition).  The remote host is the environment: it      *)
(* answers every GET with one outcome.                                     *)

MaxAnswers == 5

\* what one GET of _download_json can end with: the decoded document, or the
\* exception raised by client.get / raise_for_status / response.json
Outcomes == {"ok", "HTTPError", "TimeoutException", "JSONDecodeError"}

Answers == [1..MaxAnswers -> Outcomes]

download_json(url, answer) == [url |-> url, outcome |-> answer]

possible_paths(url) ==
    LET base_url == rstrip(url, "/")
    IN  << base_url \o << "/", "o", "p", "e", "n", "a", "p", "i", ".", "j", "s", "o", "n" >>,
           base_url \o << "/", "a", "p", "i", "/", "o", "p", "e", "n", "a", "p", "i", ".", "j", "s", "o", "n" >>,
           base_url \o << "/", "d", "o", "c", "s", "/", "o", "p", "e", "n", "a", "p", "i", ".", "j", "s", "o", "n" >>,
           base_url \o << "/", "r", "e", "d", "o", "c", "/", "o", "p", "e", "n", "a", "p", "i", ".", "j", "s", "o", "n" >> >>

\* the try / except loop over a list of locations: the first answer that is
\* not an exception is returned, an exception of the except clause moves on
\* to the next location, any other exception leaves the loader
RECURSIVE try_paths(_, _, _)
try_paths(paths, answers, caught) ==
    IF paths = << >> THEN [fetched |-> << >>, result |-> "exhausted"]
    ELSE LET response == download_json(Head(paths), Head(answers))
         IN  IF response.outcome = "ok"
             THEN [fetched |-> << response >>, result |-> "spec"]
             ELSE IF response.outcome \in caught
             THEN LET rest == try_paths(Tail(paths), Tail(answers), caught)
                  IN  [fetched |-> << response >> \o rest.fetched,
                       result |-> rest.result]
             ELSE [fetched |-> << response >>, result |-> response.outcome]

load_from_url_with_fallback(url, answers) ==
    LET caught == {"HTTPError", "TimeoutException", "JSONDecodeError"}
        direct == try_paths(<< url >>, answers, caught)
    IN  IF direct.result # "exhausted" THEN direct
        ELSE IF ~EndsWith(rstrip(url, "/"), << "o", "p", "e", "n", "a", "p", "i", ".", "j", "s", "o", "n" >>)
        THEN LET rest == try_paths(possible_paths(url), Tail(answers), caught)
             IN  [fetched |-> direct.fetched \o rest.fetched,
                  result |-> IF rest.result = "exhausted" THEN "ValueError"
                             ELSE rest.result]
        ELSE [fetched |-> direct.fetched, result |-> "ValueError"]

load_from_url(url, answers) ==
    IF ~EndsWith(url, << "o", "p", "e", "n", "a", "p", "i", ".", "j", "s", "o", "n" >>)
    THEN LET rest == try_paths(possible_paths(url), answers,
                               {"HTTPError", "TimeoutException"})
         IN  [fetched |-> rest.fetched,
              result |-> IF rest.result = "exhausted" THEN "ValueError"
                         ELSE rest.result]
    ELSE try_paths(<< url >>, answers, {})

IsHttpUrl(spec_str) ==
    StartsWith(spec_str, << "h", "t", "t", "p", ":", "/", "/" >>) \/ StartsWith(spec_str, << "h", "t", "t", "p", "s", ":", "/", "/" >>)

\* the specification sources given as strings
SpecUrls ==
    { << "h", "t", "t", "p", ":", "/", "/", "h" >>,
      << "h", "t", "t", "p", ":", "/", "/", "h", "/" >>,
      << "h", "t", "t", "p", "s", ":", "/", "/", "h", "/", "v", "1", "/", "/" >>,
      << "h", "t", "t", "p", ":", "/", "/", "h", "/", "o", "p", "e", "n", "a", "p", "i", ".", "j", "s", "o", "n" >>,
      << "h", "t", "t", "p", ":", "/", "/", "h", "/", "o", "p", "e", "n", "a", "p", "i", ".", "j", "s", "o", "n", "/" >>,
      << "h", "t", "t", "p", "s", ":", "/", "/", "a", "p", "i", ".", "r", "u", "n", "p", "o", "d", ".", "a", "i", "/", "v", "2", "/", "p", "o", "d", "1" >> }

LoaderStep == UNCHANGED << jobVars, regVars, ijVars, loaderRest >>

\* service_specification_loader.load_spec(spec_source) on a url
load_spec(spec_source) ==
    /\ IsHttpUrl(spec_source)
    /\ LET answers == [i \in 1..MaxAnswers |-> host_answers[i]]
           loaded == IF Contains(spec_source, << "r", "u", "n", "p", "o", "d", ".", "a", "i" >>)
                     THEN [fetched |-> << >>, result |-> "runpod_loader"]
                     ELSE load_from_url_with_fallback(spec_source, answers)
       IN  /\ fetched' = loaded.fetched
           /\ load_result' = [loader |-> "service_specification_loader",
                              result |-> loaded.result]
    /\ spec_url' = spec_source
    /\ UNCHANGED host_answers
    /\ LoaderStep

\* service_management.parsers.spec_loader.load_spec(spec_source) on a url
parsers_load_spec(spec_source) ==
    /\ IsHttpUrl(spec_source)
    /\ LET answers == [i \in 1..MaxAnswers |-> host_answers[i]]
           loaded == load_from_url(spec_source, answers)
       IN  /\ fetched' = loaded.fetched
           /\ load_result' = [loader |-> "service_management.parsers",
                              result |-> loaded.result]
    /\ spec_url' = spec_source
    /\ UNCHANGED host_answers
    /\ LoaderStep

LoaderInitWith(answers) ==
    /\ host_answers \in answers
    /\ spec_url = NoStr
    /\ fetched = << >>
    /\ load_result = [loader |-> "none", result |-> "none"]

LoaderIdle == LoaderInitWith({ [i \in 1..MaxAnswers |-> "ok"] })

-----------------------------------------------------------------------------
(* Threads that call InternalJobManager.submit at the same time.  submit   *)
(* holds no lock: its statements interleave with those of the other calls  *)
(* and with the worker thread.                                             *)

\* the calling threads and the job each of them submits
Submitters == {"u1", "u2"}
JobOf(u) == IF u = "u1" THEN "j1" ELSE "j2"

SubmitStep == UNCHANGED << jobVars, regVars, subRest >>

\* line 59: job.status = JOB_STATUS.QUEUED
submit_59(u) ==
    /\ submitters[u] = "idle"
    /\ status' = [status EXCEPT ![JobOf(u)] = "QUEUED"]
    /\ submitters' = [submitters EXCEPT ![u] = "60"]
    /\ UNCHANGED << queue, in_progress, results, worker_alive >>
    /\ SubmitStep

\* line 60: self.queue.append(job)
submit_60(u) ==
    /\ submitters[u] = "60"
    /\ queue' = Append(queue, JobOf(u))
    /\ submitters' = [submitters EXCEPT ![u] = "63"]
    /\ UNCHANGED << status, in_progress, results, worker_alive >>
    /\ SubmitStep

\* line 63: if not self.worker_thread.is_alive()
submit_63(u) ==
    /\ submitters[u] = "63"
    /\ submitters' = [submitters EXCEPT ![u] = IF worker_alive THEN "returned" ELSE "64"]
    /\ UNCHANGED << status, queue, in_progress, results, worker_alive >>
    /\ SubmitStep

\* line 64: self.worker_thread.start(); Thread.start raises RuntimeError
\* ("threads can only be started once") on a thread that was started
submit_64(u) ==
    /\ submitters[u] = "64"
    /\ submitters' = [submitters EXCEPT ![u] = IF worker_alive THEN "RuntimeError"
                                               ELSE "returned"]
    /\ worker_alive' = TRUE
    /\ UNCHANGED << status, queue, in_progress, results >>
    /\ SubmitStep

SubmitIdle == submitters = [u \in Submitters |-> "idle"]

-----------------------------------------------------------------------------
(* OpenAPIParser: an OpenAPI document with one path is parsed into a       *)
(* ServiceDefinition.  A dict is the sequence of its items in insertion    *)
(* order: the parser iterates dicts in that order.                         *)

\* parameters of the documents: a path-level one, one of the get operation
\* and a body field of the post operation
Param_id   == [name |-> "id", location |-> "path"]
Param_q    == [name |-> "q", location |-> "query"]
Param_text == [name |-> "text", location |-> "body"]

\* the items a path entry may hold
Item_parameters == [key |-> "parameters", parameters |-> << Param_id >>, body |-> << >>]
Item_get        == [key |-> "get", parameters |-> << Param_q >>, body |-> << >>]
Item_post       == [key |-> "post", parameters |-> << >>, body |-> << Param_text >>]

PathItems == { Item_parameters, Item_get, Item_post }

\* every ordering of every selection of the items
PathDatas ==
    { s \in UNION { [1..n -> PathItems] : n \in 0..Cardinality(PathItems) } :
        \A i, k \in 1..Len(s) : i # k => s[i].key # s[k].key }

\* the top-level keys of a document, in the order the document lists them
TopOrders == { << "paths", "info" >> }

OpenApiDocs == [top : TopOrders, title : {"svc"}, path_data : PathDatas]

HttpMethods == {"get", "post", "put", "delete", "patch", "head", "options"}

\* the order of keys under sort_keys=True
KeyRank(key) ==
    CASE key = "get" -> 1 [] key = "info" -> 2 [] key = "parameters" -> 3
      [] key = "paths" -> 4 [] key = "post" -> 5

\* sorted(d.items()): the items of a dict in the order of their keys
\* (keys[i] is the key of items[i])
RECURSIVE SortByKey(_, _)
SortByKey(items, keys) ==
    IF items = << >> THEN << >>
    ELSE LET idx == CHOOSE i \in 1..Len(keys) :
                       \A k \in 1..Len(keys) : KeyRank(keys[i]) <= KeyRank(keys[k])
             Without(seq) == [k \in 1..(Len(seq) - 1) |->
                                 IF k < idx THEN seq[k] ELSE seq[k + 1]]
         IN  << items[idx] >> \o SortByKey(Without(items), Without(keys))

KeysOf(items) == [i \in 1..Len(items) |-> items[i].key]

\* json.dumps(self.spec, sort_keys=sort_keys): the text lists the keys of
\* every dict in sorted order, or in insertion order without sort_keys
json_dumps_m(doc, sort_keys) ==
    [top |-> doc.top, title |-> doc.title, path_data |-> doc.path_data]
json_dumps(doc, sort_keys) ==
    IF sort_keys
    THEN [top |-> SortByKey(doc.top, doc.top), title |-> doc.title,
          path_data |-> SortByKey(doc.path_data, KeysOf(doc.path_data))]
    ELSE [top |-> doc.top, title |-> doc.title, path_data |-> doc.path_data]

\* hashlib.sha1(text).hexdigest(): equal texts have equal digests
sha1(text) == [sha1 |-> text]

create_version_hash(doc) == sha1(json_dumps(doc, TRUE))

\* BaseParser.parse_parameters(path_data): endpoint.get("parameters", [])
parse_parameters(items) ==
    IF \E i \in 1..Len(items) : items[i].key = "parameters"
    THEN (CHOOSE it \in { items[i] : i \in 1..Len(items) } :
             it.key = "parameters").parameters
    ELSE << >>

\* "Deduplicate params by (name, location)"
RECURSIVE deduplicate(_, _)
deduplicate(all_params, seen) ==
    IF all_params = << >> THEN << >>
    ELSE IF Head(all_params) \in seen THEN deduplicate(Tail(all_params), seen)
    ELSE << Head(all_params) >>
         \o deduplicate(Tail(all_params), seen \cup { Head(all_params) })

\* create_endpoint_definition: the id is method_path without operationId
create_endpoint_definition(path, method) ==
    [id |-> << method, "_", path >>, path |-> path, method |-> method]

\* _parse_endpoint(path, method, method_data, path_params): the endpoint, and
\* the list path_params as the call leaves it.  "all_params = path_params
\* or []" is the list path_params itself when it is not empty, so that the
\* two extend calls append to path_params; an empty path_params is replaced
\* by a new list
parse_endpoint_m(path, item, path_params) ==
    LET all_params == path_params \o item.parameters \o item.body
    IN  [endpoint |-> [id |-> create_endpoint_definition(path, item.key).id,
                       path |-> path, method |-> item.key,
                       parameters |-> deduplicate(all_params, {})],
         path_params |-> all_params]
parse_endpoint(path, item, path_params) ==
    LET all_params == path_params \o item.parameters \o item.body
    IN  [endpoint |-> [id |-> create_endpoint_definition(path, item.key).id,
                       path |-> path, method |-> item.key,
                       parameters |-> deduplicate(all_params, {})],
         path_params |-> IF path_params = << >> THEN path_params ELSE all_params]

\* "for method, method_data in path_data.items()": the endpoints of one path
RECURSIVE parse_path(_, _, _)
parse_path(path, items, path_params) ==
    IF items = << >> THEN << >>
    ELSE IF Head(items).key \in HttpMethods
    THEN LET r == parse_endpoint(path, Head(items), path_params)
         IN  << r.endpoint >> \o parse_path(path, Tail(items), r.path_params)
    ELSE parse_path(path, Tail(items), path_params)

Uuids == {"uuid_a", "uuid_b"}
Clock == {1, 2}

\* create_service_definition called by OpenAPIParser.parse: no id is given,
\* id = str(uuid.uuid4()) and created_at = datetime.now(...)
create_service_definition(doc, uuid4, now, endpoints) ==
    [id |-> uuid4, display_name |-> doc.title, specification |-> "openapi",
     endpoints |-> endpoints, created_at |-> now,
     version |-> create_version_hash(doc)]

OpenAPIParser_parse(doc, uuid4, now) ==
    create_service_definition(doc, uuid4, now,
        parse_path("/gen", doc.path_data, parse_parameters(doc.path_data)))

NoDoc == [top |-> << >>, title |-> None, path_data |-> << >>]
NoDefinition == [id |-> None, display_name |-> None, specification |-> None,
                 endpoints |-> << >>, created_at |-> 0,
                 version |-> sha1(None)]

OpenApiStep == UNCHANGED << jobVars, regVars, ijVars, oaRest >>

\* OpenAPIParser(doc).parse(); the previous parse is remembered
parse(doc) ==
    /\ \E uuid4 \in Uuids, now \in Clock :
          service_definition' = OpenAPIParser_parse(doc, uuid4, now)
    /\ openapi_doc' = doc
    /\ previous_parse' = [doc |-> openapi_doc, definition |-> service_definition]
    /\ OpenApiStep

OpenApiIdle ==
    /\ openapi_doc = NoDoc
    /\ service_definition = NoDefinition
    /\ previous_parse = [doc |-> NoDoc, definition |-> NoDefinition]

(* web.EndPointRequest: one request to an endpoint and its refresh calls *)

MaxRequests == 2     \* calls of request() on one EndPointRequest
MaxRefreshes == 2    \* refresh requests scheduled for one EndPointRequest

NoResponse == [kind |-> "None"]
NoError == [kind |-> "None"]

WebJobStatuses ==
    {"QUEUED", "PROCESSING", "FINISHED", "FAILED", "CANCELLED", "TIMEOUT"}
WebJobClasses == {"SocaityJobResponse", "RunpodJobResponse"}

\* what response.json() / response.content of an HTTP response may hold
WebBodies ==
    { [kind |-> "raw", content |-> c] : c \in {"a", "b"} }
    \cup { [kind |-> "job", cls |-> c, status |-> s] :
             c \in WebJobClasses, s \in WebJobStatuses }

\* the finished coroutine handed to the callback: the exception it raised,
\* or the HTTP response it returned
AsyncJobs ==
    { [error |-> [kind |-> "exception", detail |-> e], result |-> NoResponse] :
        e \in {"ConnectError", "ReadTimeout"} }
    \cup { [error |-> NoError,
            result |-> [kind |-> "http", status_code |-> c, body |-> b]] :
             c \in {200, 404}, b \in WebBodies }

\* the class object HTTPStatusError, which no exception instance is
HTTPStatusError == [kind |-> "class", detail |-> "HTTPStatusError"]

web_check_response_status(response) ==
    IF response.status_code = 200 THEN NoError
    ELSE IF response.status_code \in {401, 404}
         THEN [kind |-> "status", detail |-> "named"]
    ELSE IF response.status_code >= 400
         THEN [kind |-> "status", detail |-> "content"]
    ELSE NoError

\* Socaity and Runpod job bodies become job responses, everything else is
\* returned as it came
web_parse_response(response) == response.body

is_finished(self) ==
    self.server_response # NoResponse \/ self.error # NoError

\* the fields of the EndPointRequest before a callback runs; scheduled counts
\* the refresh requests the callback hands to the request handler, raised is
\* the exception that leaves the callback
EprSelf ==
    [server_response |-> epr_server_response,
     error |-> epr_error,
     in_between_server_response |-> epr_in_between_server_response,
     current_retry_counter |-> epr_current_retry_counter,
     scheduled |-> 0,
     raised |-> None]

parse_result_and_refresh_if_necessary(self, async_job_result) ==
    IF async_job_result = NoResponse THEN self
    ELSE IF is_finished(self) THEN self
    \* a job response has no status_code
    ELSE IF async_job_result.kind # "http"
         THEN [self EXCEPT !.raised = "AttributeError"]
    ELSE LET request_status_error == web_check_response_status(async_job_result)
             response == web_parse_response(async_job_result)
         IN  IF request_status_error # NoError
             THEN [self EXCEPT !.error = request_status_error]
             ELSE IF response.kind # "job"
             THEN [self EXCEPT !.server_response = response]
             ELSE IF response.status = "FINISHED"
             THEN [self EXCEPT !.in_between_server_response = NoResponse,
                               !.server_response = response]
             \* BaseJobResponse has no attribute error
             ELSE IF response.status = "FAILED"
             THEN [self EXCEPT !.raised = "AttributeError"]
             ELSE IF response.status = "CANCELLED"
             THEN [self EXCEPT !.error = [kind |-> "cancelled", detail |-> None],
                               !.server_response = response]
             ELSE [self EXCEPT !.in_between_server_response = response,
                               !.scheduled = @ + 1]

\* the new fields and whether the request should be retried
deal_with_errors(self, async_job) ==
    IF async_job.error = NoError THEN [self |-> self, retry |-> FALSE]
    ELSE IF async_job.error # HTTPStatusError
         THEN [self |-> [self EXCEPT !.error = async_job.error], retry |-> FALSE]
    ELSE [self |-> self, retry |-> TRUE]

retries_on_error == 3

EndPointRequest_response_callback(self, async_job) ==
    IF /\ self.server_response = NoResponse
       /\ self.in_between_server_response = NoResponse
       /\ async_job.error # NoError
    THEN [self EXCEPT !.error = [kind |-> "first_request",
                                 detail |-> async_job.error.detail]]
    ELSE IF async_job.error = NoError
    THEN parse_result_and_refresh_if_necessary(self, async_job.result)
    ELSE LET dealt == deal_with_errors(self, async_job)
             counted == [dealt.self EXCEPT !.current_retry_counter = @ + 1]
         IN  IF dealt.retry /\ dealt.self.in_between_server_response # NoResponse
             THEN IF counted.current_retry_counter < retries_on_error
                  THEN parse_result_and_refresh_if_necessary(counted,
                           counted.in_between_server_response)
                  ELSE [counted EXCEPT !.error = async_job.error]
             ELSE dealt.self

EprStep == UNCHANGED << jobVars, regVars, ijVars, eprRest >>

\* EndPointRequest.request: the request handler submits the endpoint call
\* with _response_callback as its callback
EndPointRequest_request ==
    /\ epr_async_jobs.requests < MaxRequests
    /\ epr_async_jobs' = [epr_async_jobs EXCEPT !.requests = @ + 1,
                                                !.pending = @ + 1]
    /\ UNCHANGED << epr_server_response, epr_error,
                    epr_in_between_server_response,
                    epr_current_retry_counter, epr_raised >>
    /\ EprStep

\* a submitted coroutine is done and its done-callback runs _response_callback
response_callback(async_job) ==
    LET self == EndPointRequest_response_callback(EprSelf, async_job)
    IN  /\ epr_async_jobs.pending > 0
        /\ self.scheduled = 0 \/ epr_async_jobs.refreshes < MaxRefreshes
        /\ epr_server_response' = self.server_response
        /\ epr_error' = self.error
        /\ epr_in_between_server_response' = self.in_between_server_response
        /\ epr_current_retry_counter' = self.current_retry_counter
        /\ epr_raised' = self.raised
        /\ epr_async_jobs' =
              [epr_async_jobs EXCEPT !.pending = @ - 1 + self.scheduled,
                                     !.refreshes = @ + self.scheduled,
                                     !.done = @ + 1]
        /\ EprStep

EprIdle ==
    /\ epr_server_response = NoResponse
    /\ epr_error = NoError
    /\ epr_in_between_server_response = NoResponse
    /\ epr_current_retry_counter = 0
    /\ epr_async_jobs = [requests |-> 0, refreshes |-> 0, pending |-> 0,
                         done |-> 0]
    /\ epr_raised = None

ExtIdle ==
    /\ ThrIdle /\ ClientInit /\ RespInitWith({JsonArray}) /\ AddrIdle
    /\ LoaderIdle /\ SubmitIdle /\ OpenApiIdle /\ EprIdle

-----------------------------------------------------------------------------
(* Specifications of the job pipeline *)

\* a service that may answer anything, and whose connection may fail
AnyServer == [responses |-> HttpResponses, raises |-> TRUE]

\* a service whose job never reaches a terminal status
StuckServer ==
    [responses |-> { [status_code |-> 200,
                      body |-> [kind |-> "job", status |-> s, error |-> None]]
                     : s \in {"QUEUED", "PROCESSING"} },
     raises |-> TRUE]

JobStateInit(specs, eps, servers, handlers, args, sizes) ==
    /\ file_handlers \in [{JobServiceId} -> handlers]
    /\ service_id_arg \in args
    /\ path_size_mb \in sizes
    /\ uploaded = {}
    /\ total_size = -1
    /\ specification \in specs
    /\ endpoint \in eps
    /\ data \in DataFor(endpoint)
    /\ server \in servers
    /\ tasks = << >>
    /\ task_idx = 0
    /\ jobState = "none"
    /\ jobError = [kind |-> None, detail |-> None]
    /\ prev_task_output = NoOutput
    /\ n_polling_errors = 0
    /\ elapsed = 0
    /\ sendCalls = 0
    /\ pollCalls = 0
    /\ sent_request = NoOutput
    /\ task_progress = None
    /\ job_result = None
    /\ send_status = 0
    /\ lastPoll = PollOutcome(None, None, None)
    /\ consecFail = 0
    /\ ranTasks = << >>

JobFilesInit(specs, eps, servers, handlers, args, sizes) ==
    /\ JobStateInit(specs, eps, servers, handlers, args, sizes)
    /\ RegInit
    /\ IJInit
    /\ ExtIdle

\* a job of a service loaded with load_api_client and submitted by its id
JobInit(specs, eps, servers) ==
    JobFilesInit(specs, eps, servers, {DefaultFileHandler}, {JobServiceId}, {1})

Init == JobInit(Specifications, Endpoints, {AnyServer})

Next ==
    \/ submit_job
    \/ prepare_request
    \/ load_files
    \/ send_request
    \/ poll_status(MaxPolls)
    \/ process_result

Spec == Init /\ [][Next]_vars

\* the whole Polling task against a service that never finishes the job
\* (the Processing result task is never reached)
PollCap == PollTimeoutSeconds + 1

InitPollClock == JobInit({"fasttaskapi"}, { << P_image >> }, {StuckServer})

NextPollClock ==
    \/ submit_job
    \/ prepare_request
    \/ load_files
    \/ send_request
    \/ poll_status(PollCap)
    \/ poll_timeout

SpecPollClock == InitPollClock /\ [][NextPollClock]_vars

-----------------------------------------------------------------------------
(* Specification of the task plan and the file handling of a job *)

\* a service that accepts the request and finishes the job
FileServer ==
    [responses |-> { [status_code |-> 200, body |-> RawBody],
                     [status_code |-> 200,
                      body |-> [kind |-> "job", status |-> "FINISHED", error |-> None]] },
     raises |-> FALSE]

InitFiles ==
    JobFilesInit(AllSpecifications, FileEndpoints, {FileServer}, FileHandlers,
                 {JobServiceId, JobServiceName}, FileSizes)

NextFiles ==
    \/ submit_job
    \/ prepare_request
    \/ load_files
    \/ upload_files
    \/ send_request
    \/ poll_status(MaxPolls)
    \/ process_result

SpecFiles == InitFiles /\ [][NextFiles]_vars

-----------------------------------------------------------------------------
(* Specification of the service registry *)

JobIdle == JobInit({"openapi"}, { << P_text >> }, {AnyServer}) /\ data = EmptyMap

InitRegistry == JobIdle

NextRegistry ==
    \/ \E service_def \in ServiceDefinitions : add_service(service_def)
    \/ \E id_or_name \in LookupKeys : get_service_call(id_or_name)
    \/ \E id_or_name \in LookupKeys, value \in DisplayNames \ {NoName} :
          update_service(id_or_name, "display_name", value)
    \/ \E id_or_name \in LookupKeys, value \in Descriptions :
          update_service(id_or_name, "description", value)
    \/ \E id_or_name \in LookupKeys : remove_service(id_or_name)

SpecRegistry == InitRegistry /\ [][NextRegistry]_vars

\* the registry over a service store that other managers write to
InitStore ==
    /\ JobStateInit({"openapi"}, { << P_text >> }, {AnyServer},
                    {DefaultFileHandler}, {JobServiceId}, {1})
    /\ data = EmptyMap
    /\ RegInitWith(TRUE)
    /\ IJInit
    /\ ExtIdle

StoreDefinitions ==
    { d \in ServiceDefinitions :
        d.description = "d1" /\ d.display_name \in {Str_Ab, NoName} }

NextStore ==
    \/ \E service_def \in StoreDefinitions : store_written(service_def)
    \/ \E service_def \in StoreDefinitions : add_service(service_def)
    \/ \E id_or_name \in LookupKeys : get_service_call(id_or_name)
    \/ \E id_or_name \in LookupKeys :
          update_service(id_or_name, "display_name", Str_a_b)
    \/ \E id_or_name \in LookupKeys : remove_service(id_or_name)

SpecStore == InitStore /\ [][NextStore]_vars

-----------------------------------------------------------------------------
(* Specification of the unlocked registry under one writer and readers *)

InitShared == JobIdle

ThreadDefinitions ==
    { d \in ServiceDefinitions :
        d.id = Str_s1 /\ d.description = "d1" /\ d.display_name = Str_Ab }

ThreadKeys == {Str_s1, Str_Ab, Str_a_b}

NextShared ==
    \/ \E service_def \in ThreadDefinitions : w_add_names(service_def)
    \/ w_add_services
    \/ \E id_or_name \in ThreadKeys : w_update_pop(id_or_name, Str_a_b)
    \/ w_update_names
    \/ w_update_services
    \/ \E id_or_name \in ThreadKeys : w_remove_services(id_or_name)
    \/ w_remove_names
    \/ \E t \in Readers, id_or_name \in ThreadKeys : r_get_172(t, id_or_name)
    \/ \E t \in Readers : r_get_173(t)
    \/ \E t \in Readers : r_get_177(t)
    \/ \E t \in Readers : r_get_178(t)
    \/ \E t \in Readers : r_get_179(t)

SpecShared == InitShared /\ [][NextShared]_vars

-----------------------------------------------------------------------------
(* Specification of one web.APIClient used by two threads *)

InitClient == JobIdle

NextClient ==
    \/ \E t \in Threads, service_name \in ServiceNames :
          set_active_service(t, service_name)
    \/ \E t \in Threads : get_current_request_handler(t)
    \/ \E t \in Threads : request(t)

SpecClient == InitClient /\ [][NextClient]_vars

-----------------------------------------------------------------------------
(* Specification of the response parser on JSON responses *)

InitParser ==
    /\ JobStateInit({"openapi"}, { << P_text >> }, {AnyServer},
                    {DefaultFileHandler}, {JobServiceId}, {1})
    /\ data = EmptyMap
    /\ RegInit
    /\ IJInit
    /\ ThrIdle
    /\ ClientInit
    /\ RespInitWith(ResponseBodies)
    /\ AddrIdle
    /\ LoaderIdle
    /\ SubmitIdle
    /\ OpenApiIdle /\ EprIdle

NextParser ==
    \/ parse_response_call
    \/ process_parsed

SpecParser == InitParser /\ [][NextParser]_vars

-----------------------------------------------------------------------------
(* Specification of service addresses and the provider clients *)

InitAddress ==
    /\ JobStateInit({"openapi"}, { << P_text >> }, {AnyServer},
                    {DefaultFileHandler}, {JobServiceId}, {1})
    /\ data = EmptyMap
    /\ RegInit
    /\ IJInit
    /\ ThrIdle
    /\ ClientInit
    /\ RespInitWith({JsonArray})
    /\ AddrInitWith(AddressInputs)
    /\ LoaderIdle
    /\ SubmitIdle
    /\ OpenApiIdle /\ EprIdle

NextAddress ==
    \/ create_address
    \/ reparse_url
    \/ add_api_client
    \/ client_send_request
    \/ \E refresh_job_url \in RefreshUrls : client_poll_status(refresh_job_url)

SpecAddress == InitAddress /\ [][NextAddress]_vars

-----------------------------------------------------------------------------
(* Specification of the specification loaders *)

InitLoader ==
    /\ JobStateInit({"openapi"}, { << P_text >> }, {AnyServer},
                    {DefaultFileHandler}, {JobServiceId}, {1})
    /\ data = EmptyMap
    /\ RegInit
    /\ IJInit
    /\ ThrIdle
    /\ ClientInit
    /\ RespInitWith({JsonArray})
    /\ AddrIdle
    /\ LoaderInitWith(Answers)
    /\ SubmitIdle
    /\ OpenApiIdle /\ EprIdle

NextLoader ==
    \/ \E spec_source \in SpecUrls : load_spec(spec_source)
    \/ \E spec_source \in SpecUrls : parsers_load_spec(spec_source)

SpecLoader == InitLoader /\ [][NextLoader]_vars

-----------------------------------------------------------------------------
(* Specification of the threaded internal jobs *)

InitInternalJob == JobIdle

NextInternalJob ==
    \/ \E j \in Jobs : run(j)
    \/ \E j \in Jobs : wait_for_finished(j)
    \/ process_jobs_in_background
    \/ \E k \in 1..MaxSubmits : run_begin(k)
    \/ \E k \in 1..MaxSubmits, ok \in BOOLEAN : run_end(k, ok)

SpecInternalJob == InitInternalJob /\ [][NextInternalJob]_vars

-----------------------------------------------------------------------------
(* Specification of concurrent submits to the internal job manager *)

InitSubmit == JobIdle

NextSubmit ==
    \/ \E u \in Submitters : submit_59(u)
    \/ \E u \in Submitters : submit_60(u)
    \/ \E u \in Submitters : submit_63(u)
    \/ \E u \in Submitters : submit_64(u)
    \/ process_jobs_in_background
    \/ \E k \in 1..Cardinality(Submitters) : run_begin(k)
    \/ \E k \in 1..Cardinality(Submitters), ok \in BOOLEAN : run_end(k, ok)

SpecSubmit == InitSubmit /\ [][NextSubmit]_vars

-----------------------------------------------------------------------------
(* Specification of the OpenAPI parser *)

InitOpenApi == JobIdle

NextOpenApi == \E doc \in OpenApiDocs : parse(doc)

SpecOpenApi == InitOpenApi /\ [][NextOpenApi]_vars

\* one EndPointRequest whose holder may call request() again while an
\* earlier call or a refresh is still under way
InitEndpointRequest == JobIdle

NextEndpointRequest ==
    \/ EndPointRequest_request
    \/ \E async_job \in AsyncJobs : response_callback(async_job)

SpecEndpointRequest == InitEndpointRequest /\ [][NextEndpointRequest]_vars

-----------------------------------------------------------------------------
(* Claims about threads *)

\* C21: with one writer thread and concurrent reader threads, a get never
\* fails because the name index and the services map disagree, and what it
\* returns is a definition registered under the id it was looked up by.
C21_ReaderNeverSeesPartialWrite ==
    \A t \in Readers :
        readers[t].pc = "done" =>
            /\ readers[t].outcome # "KeyError"
            /\ readers[t].outcome = "ok" =>
                    readers[t].service.id \in {readers[t].key, readers[t].service_id}

\* C22: the active service is a per-thread value: setting it in one thread
\* changes neither the active service another thread observes nor the url
\* that other thread's requests go to, and every request of a thread goes to
\* the url of the service that is active in that thread.
C22_ActiveServicePerThread ==
    [][ /\ \A t \in Threads, n \in ServiceNames :
              set_active_service(t, n) =>
                  \A u \in Threads \ {t} :
                      /\ active_service(u)' = active_service(u)
                      /\ target_url(u)' = target_url(u)
        /\ \A t \in Threads :
              request(t) => sent_to'[t] = service_urls[active_service(t)]
      ]_vars

\* two threads have sent requests to different urls with the same client
C22_Witness ==
    /\ sent_to["t1"] # None /\ sent_to["t2"] # None
    /\ sent_to["t1"] # sent_to["t2"]
    /\ active_service("t1") # active_service("t2")

-----------------------------------------------------------------------------
(* Claims about the response parser *)

\* the body is decoded by the Runpod strategy and its result is a JSON-encoded
\* string that some strategy can parse
NestedParseable(body) ==
    /\ IsDict(body)
    /\ ~SocaityResponseParser_can_parse(body)
    /\ RunpodResponseParser_can_parse(body)
    /\ "output" \in DOMAIN body.members
    /\ IsDict(json_loads(body.members["output"]))
    /\ \E i \in 1..Len(strategies) :
          can_parse(strategies[i], json_loads(body.members["output"]))

\* the scenario: outer COMPLETED wrapping a Socaity FINISHED with result "ok"
NestedOk(body) ==
    /\ NestedParseable(body)
    /\ body.members["status"] = "COMPLETED"
    /\ LET inner == json_loads(body.members["output"]) IN
         /\ SocaityResponseParser_can_parse(inner)
         /\ inner.members["status"] = "FINISHED"
         /\ "result" \in DOMAIN inner.members
         /\ inner.members["result"].text = "ok"

C24_FinishedHasFullProgress ==
    (IsJobResponse(parsed) /\ parsed.status = "FINISHED") =>
        parsed.progress.progress = ProgressDone

\* the strategies whose match predicate holds for the body
Matching(body) ==
    { i \in 1..Len(strategies) : IsDict(body) /\ can_parse(strategies[i], body) }

StrategyClass(strategy) ==
    CASE strategy = "socaity"   -> "SocaityJobResponse"
      [] strategy = "runpod"    -> "RunpodJobResponse"
      [] strategy = "replicate" -> "ReplicateJobResponse"

\* C25: a JSON body is decoded by the first strategy, in the order Socaity,
\* Runpod, Replicate, whose match predicate holds; later strategies are not
\* consulted; a JSON body of any shape that matches none is returned
\* undecoded without an error.
C25_FirstMatchWinsElseRaw ==
    parsed.cls # "none" =>
        IF Matching(response_body) = {}
        THEN parsed = RawData(response_body)
        ELSE LET i == CHOOSE m \in Matching(response_body) :
                         \A n \in Matching(response_body) : m <= n
             IN  /\ consulted = SubSeq(strategies, 1, i)
                 /\ parsed.cls = StrategyClass(strategies[i])

-----------------------------------------------------------------------------
(* Claims about service addresses and the provider clients *)

\* C26: the poll call uses the HTTP method fixed by the provider variant of
\* the client: GET for the generic client, POST for Socaity, POST for Runpod,
\* GET for Replicate.
C26_PollMethodByProvider ==
    wire.kind = "poll" =>
        wire.method = CASE api_client.cls = "APIClient"          -> "GET"
                        [] api_client.cls = "APIClientSocaity"   -> "POST"
                        [] api_client.cls = "APIClientRunpod"    -> "POST"
                        [] api_client.cls = "APIClientReplicate" -> "GET"

\* the Replicate shorthand user/model:version was given
IsVersionShorthand(input) ==
    input.provider = "replicate" /\ input.address = << "u", "s", "e", "r", "/", "m", "o", "d", "e", "l", ":", "v", "1" >>

\* C27: for a Replicate address given in the shorthand user/model:version the
\* resolved address has model name user/model, that version and the
\* model-predictions url, and the request body of a job carries that version.
C27_ReplicateShorthandResolved ==
    (IsVersionShorthand(address_input) /\ service_address.cls # "none") =>
        /\ service_address.cls = "ReplicateServiceAddress"
        /\ service_address.model_name = << "u", "s", "e", "r", "/", "m", "o", "d", "e", "l" >>
        /\ service_address.version = << "v", "1" >>
        /\ service_address.url \in
              { << "h", "t", "t", "p", "s", ":", "/", "/", "a", "p", "i", ".", "r", "e", "p", "l", "i", "c", "a", "t", "e", ".", "c", "o", "m", "/", "v", "1", "/", "m", "o", "d", "e", "l", "s", "/", "u", "s", "e", "r", "/", "m", "o", "d", "e", "l", "/", "p", "r", "e", "d", "i", "c", "t", "i", "o", "n", "s" >>,
                << "h", "t", "t", "p", "s", ":", "/", "/", "a", "p", "i", ".", "r", "e", "p", "l", "i", "c", "a", "t", "e", ".", "c", "o", "m", "/", "v", "1", "/", "m", "o", "d", "e", "l", "s", "/", "u", "s", "e", "r", "/", "m", "o", "d", "e", "l", ":", "v", "1", "/", "p", "r", "e", "d", "i", "c", "t", "i", "o", "n", "s" >> }
        /\ wire.kind = "send" => wire.version = << "v", "1" >>

\* C29: the address parser is idempotent: parsing the url of parse(u) yields
\* an address equal to parse(u).
C29_AddressParserIdempotent ==
    reparsed.cls # "none" => reparsed = service_address

HasScheme(url) == StartsWith(url, << "h", "t", "t", "p", ":", "/", "/" >>) \/ StartsWith(url, << "h", "t", "t", "p", "s", ":", "/", "/" >>)

\* C30: for every accepted input the url of the resulting service address is
\* non-empty, starts with a scheme and has no trailing slash.
C30_UrlSchemeNoTrailingSlash ==
    service_address.cls \notin {"none", "raised"} =>
        /\ service_address.url # << >>
        /\ HasScheme(service_address.url)
        /\ ~EndsWith(service_address.url, << "/" >>)

-----------------------------------------------------------------------------
(* Claims about the job pipeline *)

TerminalStatuses == {"FINISHED", "FAILED", "CANCELLED"}

PollingIdx == CHOOSE i \in 1..Len(tasks) : tasks[i] = "Polling"

RequiredWithoutDefault(ep) ==
    { ep[i].name : i \in { k \in 1..Len(ep) : ep[k].required /\ ep[k].default = None } }

\* C1: in the Polling stage the first, second and third consecutive failed
\* poll call are answered by polling again, and the fourth consecutive
\* failure terminates the job as failed with that failure's error.
C1_FourthPollFailureFails ==
    /\ (lastPoll.outcome = "exception" /\ consecFail \in 1..3) => Running("Polling")
    /\ (lastPoll.outcome = "exception" /\ consecFail >= 4)
          => (jobState = "failed" /\ jobError.kind = "PollError")

\* C2: a job submitted with an empty input map to an endpoint with a required
\* parameter without default fails in Preparing with MissingParameter for
\* that parameter, and no HTTP call is issued.
C2_EmptyInputFailsPreparing ==
    (DOMAIN data = {} /\ RequiredWithoutDefault(endpoint) # {} /\ ranTasks # << >>)
        => /\ jobState = "failed"
           /\ jobError.kind = "MissingParameter"
           /\ jobError.detail \in RequiredWithoutDefault(endpoint)
           /\ ranTasks = << "Preparing" >>
           /\ sendCalls = 0

\* C5: when the response of the send call has an HTTP error status, the job
\* is failed, the send was attempted exactly once, no poll call was issued
\* and no task after Sending has run.
C5_SendErrorFailsAtOnce ==
    send_status >= 400
        => /\ jobState = "failed"
           /\ jobError.kind = "RequestFailed"
           /\ sendCalls = 1
           /\ pollCalls = 0
           /\ ranTasks[Len(ranTasks)] = "Sending request"
           /\ CurrentTask = "Sending request"
           /\ job_result = None

C5_Witness ==
    /\ send_status = 500
    /\ jobState = "failed"
    /\ \E i \in 1..Len(tasks) : tasks[i] = "Polling"

\* C6: for a polled response that decodes to a job response, the Polling
\* stage ends exactly when its status is terminal: finished hands that
\* response to the next stage, failed or cancelled fails the job with the
\* server's error text, any other status keeps the job polling.
C6_PollingEndsOnTerminalStatus ==
    lastPoll.outcome = "decoded"
        => /\ lastPoll.status = "FINISHED"
                => /\ task_idx > PollingIdx
                   /\ jobState \in {"running", "finished"}
                   /\ prev_task_output =
                        [kind |-> "job", status |-> "FINISHED", error |-> lastPoll.error]
           /\ lastPoll.status \in {"FAILED", "CANCELLED"}
                => /\ jobState = "failed"
                   /\ CurrentTask = "Polling"
                   /\ jobError.kind = "ServerJobFailed"
                   /\ lastPoll.error # None => jobError.detail = lastPoll.error
           /\ lastPoll.status \notin TerminalStatuses
                => /\ CurrentTask = "Polling"
                   /\ jobState = "running" \/ jobError.kind = "PollTimeout"

C6_Witness ==
    /\ lastPoll.outcome = "decoded"
    /\ lastPoll.status = "CANCELLED"
    /\ lastPoll.error = "boom"
    /\ jobError.detail = "boom"
    /\ pollCalls >= 2

\* C7: the poll-failure count counts consecutive failures only, so a job is
\* terminated for poll failures only when four failures occurred with no
\* successful poll between them.
C7_OnlyConsecutiveFailuresTerminate ==
    jobError.kind = "PollError" => consecFail >= 4

\* C8: a poll response with status 5xx and a polled payload that does not
\* decode to a job response are transient poll errors: up to the third
\* consecutive one the job keeps polling.
C8_TransientErrorsRetried ==
    (lastPoll.outcome \in {"http_5xx", "undecodable"} /\ consecFail <= 3)
        => Running("Polling")

\* C9: the Polling stage issues one poll per second and at most 3600 of
\* them; a job whose server status is still not terminal after 3600 s fails
\* with a poll timeout.
C9_PollingCappedAt3600s ==
    /\ pollCalls <= 3600
    /\ elapsed <= 3600
    /\ CurrentTask = "Polling" /\ isBaseJobResponse(prev_task_output)
          => (jobState = "running" => elapsed = pollCalls * 1)
    /\ jobError.kind = "PollTimeout"
          => /\ jobState = "failed"
             /\ elapsed = 3600
             /\ pollCalls = 3600
             /\ lastPoll.status \notin TerminalStatuses

C9_Witness ==
    /\ jobError.kind = "PollTimeout"
    /\ pollCalls = 3600
    /\ lastPoll.outcome = "decoded"

-----------------------------------------------------------------------------
(* Claims about the task plan and the file handling *)

StageOrder ==
    << "Preparing", "Load files", "Uploading files", "Sending request",
       "Polling", "Processing result" >>

StageRank(t) == CHOOSE i \in 1..Len(StageOrder) : StageOrder[i] = t

InPlan(t) == \E i \in 1..Len(tasks) : tasks[i] = t

\* the handler registered for the job's service
JobHandler == file_handlers[JobServiceId]

\* the media parameters of the job's input that are local files
NonUrlNames == { n \in DOMAIN data : data[n] = "path" }

NonUrlTotal == Cardinality(NonUrlNames) * path_size_mb

\* C11: the plan of every job lists its stages in the fixed order Preparing,
\* Load files, Uploading files, Sending request, Polling, Processing result,
\* with Preparing, Sending request and Processing result always present, and
\* the stages are invoked one after another in plan order.
C11_StagesInFixedOrder ==
    jobState # "none"
        => /\ \A i, j \in 1..Len(tasks) :
                 i < j => StageRank(tasks[i]) < StageRank(tasks[j])
           /\ InPlan("Preparing")
           /\ InPlan("Sending request")
           /\ InPlan("Processing result")
           /\ Len(ranTasks) <= Len(tasks)
           /\ ranTasks = SubSeq(tasks, 1, Len(ranTasks))
           /\ jobState = "running" => task_idx = Len(ranTasks) + 1
           /\ jobState = "finished" => ranTasks = tasks

C11_Witness ==
    /\ jobState = "finished"
    /\ ranTasks = StageOrder

\* C12: whether the job names its service by id or by display name, the plan
\* contains Uploading files iff the handler registered for the service has
\* an uploader.
C12_UploadingIffUploader ==
    jobState # "none" => (InPlan("Uploading files") <=> JobHandler.fast_cloud)

\* C13: the plan contains Load files iff some parameter of the endpoint has a
\* media format among its types.
C13_LoadFilesIffMediaParam ==
    jobState # "none"
        => (InPlan("Load files")
              <=> \E i \in 1..Len(endpoint) :
                     endpoint[i].type \cap {"file", "image", "video", "audio"} # {})

C13_Witness ==
    /\ InPlan("Load files")
    /\ endpoint = << P_voice, P_audio >>
    /\ "Load files" \in { ranTasks[i] : i \in 1..Len(ranTasks) }

\* C14: the plan contains Polling iff the specification of the service is
\* fasttaskapi, socaity, runpod or replicate.
C14_PollingIffJobSpecification ==
    jobState # "none"
        => (InPlan("Polling")
              <=> specification \in {"fasttaskapi", "socaity", "runpod", "replicate"})

C14_Witness ==
    /\ specification = "replicate"
    /\ InPlan("Polling")
    /\ pollCalls >= 1

\* C15: when the handler of the service has a maximum upload size, with or
\* without an uploader, a job whose local files total more than the maximum
\* issues no upload and no HTTP call and does not finish.
C15_FileTooLargeBeforeAnyCall ==
    (JobHandler.max_upload_file_size_mb > 0
       /\ NonUrlTotal > JobHandler.max_upload_file_size_mb)
        => /\ sendCalls = 0
           /\ uploaded = {}
           /\ jobState # "finished"

C17_UrlPassesUnchanged ==
    /\ total_size \in {-1, NonUrlTotal}
    /\ \A n \in DOMAIN data :
          (ParamOf(endpoint, n).type \cap FileTypes # {} /\ data[n] = "url")
            => /\ n \notin uploaded
               /\ prev_task_output.kind = "request"
                    => (DOMAIN prev_task_output.file_params # {}
                          => prev_task_output.file_params[n] = "url")
               /\ sent_request.kind = "request"
                    => /\ sent_request.body_params[n] = "url"
                       /\ n \notin DOMAIN sent_request.file_params

C17_Witness ==
    /\ sent_request.kind = "request"
    /\ endpoint = << P_image, P_audio >>
    /\ data["image"] = "url"
    /\ data["audio"] = "path"
    /\ uploaded = {"audio"}
    /\ sent_request.body_params["image"] = "url"

-----------------------------------------------------------------------------
(* Claims about the registry and the internal jobs *)

\* C3: adding a service whose id is already registered fails with
\* DuplicateId and leaves the registered definition of that id unchanged.
C3_DuplicateIdRejected ==
    [][ (reg_last'.op = "add" /\ reg_last'.arg \in DOMAIN services)
          => (reg_last'.outcome = "DuplicateId" /\ services' = services) ]_vars

\* C18: after update_service(x, display_name = n) found the service, the
\* stored record has display name n, the normalized n resolves to the service
\* and the normalized old name no longer does.
C18_UpdateNameChangesRecordAndIndex ==
    [][ \A x \in LookupKeys, n \in DisplayNames \ {NoName} :
          (update_service(x, "display_name", n) /\ get_service(x).found)
            => LET id == get_service(x).service.id
                   old == normalize_name_for_py(get_service(x).service.display_name)
                   new == normalize_name_for_py(n)
               IN  /\ id \in DOMAIN services'
                   /\ services'[id].display_name = n
                   /\ new \in DOMAIN service_names'
                   /\ service_names'[new] = id
                   /\ (old # new /\ old \in DOMAIN service_names')
                         => service_names'[old] # id ]_vars

\* C19: after remove_service(x) of a registered service, whatever adds and
\* updates came before, the id is in no index, no name refers to it and the
\* store does not hold it.
C19_RemovePurgesEveryEntry ==
    [][ \A x \in LookupKeys :
          (remove_service(x) /\ get_service(x).found)
            => LET id == get_service(x).service.id
               IN  /\ id \notin DOMAIN services'
                   /\ \A k \in DOMAIN service_names' : service_names'[k] # id
                   /\ id \notin DOMAIN store_files' ]_vars

AllowedMove(s, t) ==
    \/ s = t
    \/ s = "CREATED" /\ t = "QUEUED"
    \/ s = "QUEUED" /\ t = "PROCESSING"
    \/ s = "PROCESSING" /\ t \in { "FINISHED", "FAILED" }

\* C4: a job's state only moves pending -> running -> finished | failed,
\* and a finished or failed job never changes its state again, whatever
\* operation is invoked on it.
C4_JobStateMachine ==
    [][ \A j \in Jobs : AllowedMove(status[j], status'[j]) ]_vars

-----------------------------------------------------------------------------
(* C28 *)

\* a url load ended that was not routed to the Runpod loader
UrlLoaded == load_result.loader # "none" /\ load_result.result # "runpod_loader"

Failed(i) == fetched[i].outcome # "ok"

\* C28: for a spec url that does not end in openapi.json the loader requests
\* the direct url first, then /openapi.json, /api/openapi.json,
\* /docs/openapi.json and /redoc/openapi.json in this order, stops at the
\* first request that succeeds, and reports that no spec was found only after
\* the direct url and all four fallbacks have failed.
C28_DirectThenFallbacksInOrder ==
    (UrlLoaded /\ ~EndsWith(spec_url, << "o", "p", "e", "n", "a", "p", "i", ".", "j", "s", "o", "n" >>)) =>
        LET base == rstrip(spec_url, "/")
            order == << spec_url,
                        base \o << "/", "o", "p", "e", "n", "a", "p", "i", ".", "j", "s", "o", "n" >>,
                        base \o << "/", "a", "p", "i", "/", "o", "p", "e", "n", "a", "p", "i", ".", "j", "s", "o", "n" >>,
                        base \o << "/", "d", "o", "c", "s", "/", "o", "p", "e", "n", "a", "p", "i", ".", "j", "s", "o", "n" >>,
                        base \o << "/", "r", "e", "d", "o", "c", "/", "o", "p", "e", "n", "a", "p", "i", ".", "j", "s", "o", "n" >> >>
            n == Len(fetched)
        IN  /\ n >= 1
            /\ n <= Len(order)
            /\ \A i \in 1..n : fetched[i].url = order[i]
            /\ \A i \in 1..(n - 1) : Failed(i)
            /\ load_result.result = "spec" => ~Failed(n)
            /\ load_result.result = "ValueError" =>
                   n = Len(order) /\ \A i \in 1..n : Failed(i)

-----------------------------------------------------------------------------
(* C32, C33: the name index after adds, updates and removes *)

\* C32: after any sequence of add, update and remove, every entry of the
\* normalized-name index refers to an id of the services map, and no lookup
\* by name ends with an internal error (KeyError).
C32_NameIndexRefersToRegistered ==
    /\ \A k \in DOMAIN service_names : service_names[k] \in DOMAIN services
    /\ reg_last.outcome # "KeyError"

\* C33: remove_service(x) of a registered service leaves the name-index entry
\* of every other service as it was, also when the removed service has the
\* same normalized display name as another one.
C33_RemoveKeepsOtherNames ==
    [][ \A x \in LookupKeys :
          (remove_service(x) /\ get_service(x).found)
            => LET id == get_service(x).service.id
               IN  \A k \in DOMAIN service_names :
                     service_names[k] # id
                       => /\ k \in DOMAIN service_names'
                          /\ service_names'[k] = service_names[k] ]_vars

-----------------------------------------------------------------------------
(* C34, C35, C36: the Polling and the Sending stage *)

\* C34: a polled response whose unified status is TIMEOUT (Runpod TIMED_OUT)
\* ends the Polling stage with the job failed; no poll follows it.
C34_TimeoutStatusFailsJob ==
    (lastPoll.outcome = "decoded" /\ lastPoll.status = "TIMEOUT")
        => /\ jobState = "failed"
           /\ CurrentTask = "Polling"

\* the response of the Sending call that the Polling stage starts from
SentTerminal ==
    /\ Running("Polling")
    /\ isBaseJobResponse(prev_task_output)
    /\ prev_task_output.status \in TerminalStatuses

\* C35: when the response to the Sending call already has status FINISHED,
\* FAILED or CANCELLED, the Polling stage issues no poll call: it hands a
\* finished response on and fails the job on a failed or cancelled one.
C35_NoPollAfterTerminalSend ==
    [][ SentTerminal
          => /\ pollCalls' = pollCalls
             /\ prev_task_output.status = "FINISHED"
                  => /\ task_idx' = task_idx + 1
                     /\ prev_task_output' = prev_task_output
             /\ prev_task_output.status \in {"FAILED", "CANCELLED"}
                  => jobState' = "failed" ]_vars

\* the job has no media parameter and no file value in its input
NoFilesJob ==
    /\ ~HasFileParam(endpoint)
    /\ \A n \in DOMAIN data : ~(data[n] \in {"path", "url"})

SendingRan == \E i \in 1..Len(ranTasks) : ranTasks[i] = "Sending request"

\* C36: a job without media parameter and without file value passes the
\* Sending stage without a file-handling error and issues exactly one send
\* call, which carries its query and body parameters.
C36_TextJobSendsOnce ==
    (NoFilesJob /\ SendingRan)
        => /\ sendCalls = 1
           /\ ~(jobState = "failed" /\ jobError.kind = "AttributeError")
           /\ sent_request.query_params =
                format_request_params(endpoint, data).rq.query_params
           /\ sent_request.body_params =
                format_request_params(endpoint, data).rq.body_params

-----------------------------------------------------------------------------
(* C39 *)

\* how often job j was started: its live threads and its stored results
Starts(j) ==
    Cardinality({ k \in 1..Len(in_progress) :
                    in_progress[k].job = j /\ in_progress[k].state # "dead" })
    + Cardinality({ k \in 1..Len(results) : results[k] = j })

Queued(j) == Cardinality({ k \in 1..Len(queue) : queue[k] = j })

\* C39: when several threads submit jobs concurrently, no submit call
\* raises, the worker thread is started exactly once, and every submitted
\* job is started exactly once (it is queued until it is started, and it is
\* never started twice).
C39_ConcurrentSubmitsSafe ==
    \A u \in Submitters :
        /\ submitters[u] # "RuntimeError"
        /\ submitters[u] = "returned" => worker_alive
        /\ submitters[u] \in {"63", "64", "returned"}
              => Queued(JobOf(u)) + Starts(JobOf(u)) = 1

-----------------------------------------------------------------------------
(* C31, C37 *)

\* the same document was parsed twice in a row
ParsedTwice == openapi_doc # NoDoc /\ previous_parse.doc = openapi_doc

\* a document up to the order of the keys of its maps
Canonical(doc) ==
    [title |-> doc.title,
     top |-> { doc.top[i] : i \in 1..Len(doc.top) },
     path_data |-> { doc.path_data[i] : i \in 1..Len(doc.path_data) }]

\* the version is the hash of the canonical JSON: two parsed documents have
\* the same version exactly when they are equal up to map ordering
VersionOfCanonical ==
    previous_parse.doc # NoDoc
        => ((service_definition.version = previous_parse.definition.version)
              <=> (Canonical(openapi_doc) = Canonical(previous_parse.doc)))

WithoutIdAndTime(definition) ==
    [definition EXCEPT !.id = None, !.created_at = 0]

OwnParams(doc, item) ==
    { parse_parameters(doc.path_data)[i] :
        i \in 1..Len(parse_parameters(doc.path_data)) }
    \cup { item.parameters[i] : i \in 1..Len(item.parameters) }
    \cup { item.body[i] : i \in 1..Len(item.body) }

OperationOf(doc, method) ==
    CHOOSE it \in { doc.path_data[i] : i \in 1..Len(doc.path_data) } :
        it.key = method

\* C37: the parameter list of a parsed endpoint holds only the path-level
\* parameters and the parameters and body fields of its own operation, in
\* whatever order the methods of the path are parsed.
C37_EndpointHasOnlyOwnParams ==
    \A e \in 1..Len(service_definition.endpoints) :
        LET endpoint_def == service_definition.endpoints[e]
        IN  { endpoint_def.parameters[i] : i \in 1..Len(endpoint_def.parameters) }
              = OwnParams(openapi_doc, OperationOf(openapi_doc, endpoint_def.method))

\* C38: once an EndPointRequest is finished (its server response or its
\* error is set), a response callback that runs later changes neither the
\* response nor the error and schedules no further refresh request.
C38_FinishedIsFinal ==
    [][ (is_finished(EprSelf) /\ epr_async_jobs'.done > epr_async_jobs.done)
        => /\ epr_server_response' = epr_server_response
           /\ epr_error' = epr_error
           /\ epr_async_jobs'.refreshes = epr_async_jobs.refreshes ]_vars

====
